---- MODULE Spec2Model ----
(***************************************************************************)
(* Model of the Feelfit API client (custom_components/feelfit/api.py) and  *)
(* of the coordinator update method that drives it (sensor.py).            *)
(*                                                                         *)
(* Python dicts are functions with a string domain; the empty dict and the *)
(* empty list are both <<>>.  A key whose value is None is an absent key.  *)
(* A network response is [ok, data]: ok = FALSE is any failure of _get     *)
(* (transport error, non-200 status, undecodable body), which raises       *)
(* FeelfitApiError; data is what _get returns otherwise.                   *)
(*                                                                         *)
(* async_fetch_all is a coroutine: its position (pc) and its locals        *)
(* (frame) are state, and one action runs the code between two awaits.     *)
(***************************************************************************)
EXTENDS Integers, Sequences, FiniteSets, TLC

VARIABLES
    token,              \* FeelfitApi.token ("" stands for None / empty)
    token_expires,      \* FeelfitApi.token_expires (<<>> is None, <<t>> a time)
    user_info,          \* FeelfitApi.user_info
    meta,               \* FeelfitApi._last_measurements_meta
    selected_profiles,  \* the coordinator closure's selected_profiles
    data,               \* DataUpdateCoordinator.data (<<>> is None)
    pc,                 \* position of the running async_fetch_all, or "idle"
    frame,              \* locals of the running / last async_fetch_all
    log,                \* requests issued by the running / last operation
    ret,                \* payload returned by the last operation (<<>>: none)
    last,               \* outcome of the last completed operation
    hass                \* the config entry and the registries of Home Assistant

vars == <<token, token_expires, user_info, meta, selected_profiles, data,
          pc, frame, log, ret, last, hass>>

---------------------------------------------------------------------------
(* Bounds of the model *)

MaxTs == 2      \* last_updated_at values reported by the server: 0..MaxTs
MaxId == 1      \* last_measurement_id values reported by the server: 0..MaxId
MaxPts == 1     \* time_stamp values carried by a profile: 1..MaxPts, or absent

---------------------------------------------------------------------------
(* Python helpers *)

EmptyDict == <<>>

Has(d, k) == k \in DOMAIN d

\* d.get(k) or 0
GetInt(d, k) == IF k \in DOMAIN d THEN d[k] ELSE 0

\* d.get(k) or "" (None and "" are both falsy)
GetStr(d, k) == IF k \in DOMAIN d THEN d[k] ELSE ""

\* d.get(k) or [] / d.get(k) or {}
GetSeq(d, k) == IF k \in DOMAIN d THEN d[k] ELSE <<>>

\* d.get(k) as an optional value: <<>> is None, <<v>> a value
GetOpt(d, k) == IF k \in DOMAIN d THEN <<d[k]>> ELSE <<>>

\* d[k] = v on a copy of d
Put(d, k, v) == (k :> v) @@ d

Digit == <<"0", "1", "2", "3", "4", "5", "6", "7", "8", "9">>

\* str(n) of a non-negative integer
RECURSIVE ToStr(_)
ToStr(n) == IF n < 10 THEN Digit[n + 1]
            ELSE ToStr(n \div 10) \o Digit[(n % 10) + 1]

\* str(profile.get("user_id"))
StrUserId(p) == IF Has(p, "user_id") THEN ToStr(p.user_id) ELSE "None"

\* a JSON value that is a number or a string, where the code tells them apart
IntVal(n) == [int |-> n]
StrVal(x) == [str |-> x]

\* str(d.get(k)) of such a value
PyStr(d, k) ==
    IF ~Has(d, k) THEN "None"
    ELSE IF Has(d[k], "int") THEN ToStr(d[k].int)
    ELSE d[k].str

\* an e-mail address is its part before the first "@" and the rest of it
EmailStr(e) == e.local \o e.rest

\* email.split("@")[0]
LocalPart(e) == e.local

Fail == [ok |-> FALSE, data |-> EmptyDict]
Ok(d) == [ok |-> TRUE, data |-> d]

---------------------------------------------------------------------------
(* const.py *)

PATH_LOGIN == "/users/sign_in"
PATH_USER_SETTINGS == "/user_settings/show_common_setting"
PATH_GOALS == "/goals/list_goal"
PATH_DEVICE_BINDS == "/device_binds/list_device_bind"
PATH_MEASUREMENTS == "/measurements/list_measurement"
PATH_GET_PRIMARY_USER == "/users/get_primary_user"
PATH_SUB_USERS == "/sub_users/list_sub_user"

NotAuthenticated == "FeelfitApiError: Not authenticated"
RequestFailed == "FeelfitApiError: request failed"
LoginFailed == "FeelfitApiError: Login failed"
UpdateFailed == "UpdateFailed"
NoError == "none"

\* a request as _get / async_get_last_measurements builds it
Req(path, extra) == Put(extra, "path", path)

MeasReq(uid, lua, lmid) ==
    Req(PATH_MEASUREMENTS,
        [user_id |-> uid, last_updated_at |-> ToStr(lua),
         last_measurement_id |-> ToStr(lmid)])


---------------------------------------------------------------------------
(* async_login *)

\* Login that drops the session when the server refuses the login
LoginClearsOnRefusal(resp, now) ==
    LET result == resp.data
        code == PyStr(result, "code")
        d == GetSeq(result, "data")
        token_info == GetSeq(d, "token_info")
        tok == GetStr(token_info, "token")
        remaining == GetInt(token_info, "remaining_time")
    IN  IF ~resp.ok THEN
            [raised |-> RequestFailed, carries |-> EmptyDict, token |-> token,
             token_expires |-> token_expires, user_info |-> user_info]
        ELSE IF code \notin {"200", "0"} THEN
            [raised |-> LoginFailed, carries |-> result, token |-> "",
             token_expires |-> <<>>, user_info |-> EmptyDict]
        ELSE
            [raised |-> NoError, carries |-> d,
             token |-> IF tok # "" THEN tok ELSE token,
             token_expires |-> IF tok # "" THEN <<now + remaining>>
                               ELSE token_expires,
             user_info |-> GetSeq(d, "user_info")]

\* Login that takes remaining_time itself as the expiry
LoginExpiryIsRemaining(resp, now) ==
    LET result == resp.data
        code == PyStr(result, "code")
        d == GetSeq(result, "data")
        token_info == GetSeq(d, "token_info")
        tok == GetStr(token_info, "token")
        remaining == GetInt(token_info, "remaining_time")
    IN  IF ~resp.ok THEN
            [raised |-> RequestFailed, carries |-> EmptyDict, token |-> token,
             token_expires |-> token_expires, user_info |-> user_info]
        ELSE IF code \notin {"200", "0"} THEN
            [raised |-> LoginFailed, carries |-> result, token |-> token,
             token_expires |-> token_expires, user_info |-> user_info]
        ELSE
            [raised |-> NoError, carries |-> d,
             token |-> IF tok # "" THEN tok ELSE token,
             token_expires |-> IF tok # "" THEN <<remaining>>
                               ELSE token_expires,
             user_info |-> GetSeq(d, "user_info")]

\* the state of the session after async_login has processed `resp` at time `now`:
\* resp.ok = FALSE is a transport failure or a non-200 status, resp.data the
\* decoded body otherwise; carries is the payload in the error message of a
\* refused login, and the returned data of an accepted one
Login(resp, now) ==
    LET result == resp.data
        code == PyStr(result, "code")
        d == GetSeq(result, "data")
        token_info == GetSeq(d, "token_info")
        tok == GetStr(token_info, "token")
        remaining == GetInt(token_info, "remaining_time")
    IN  IF ~resp.ok THEN
            [raised |-> RequestFailed, carries |-> EmptyDict, token |-> token,
             token_expires |-> token_expires, user_info |-> user_info]
        ELSE IF code \notin {"200", "0"} THEN
            [raised |-> LoginFailed, carries |-> result, token |-> token,
             token_expires |-> token_expires, user_info |-> user_info]
        ELSE
            [raised |-> NoError, carries |-> d,
             token |-> IF tok # "" THEN tok ELSE token,
             token_expires |-> IF tok # "" THEN <<now + remaining>>
                               ELSE token_expires,
             user_info |-> GetSeq(d, "user_info")]

---------------------------------------------------------------------------
(* async_list_all_profiles *)

\* the value of the conditional expression that derives account_name
DerivedName(p, placeholder) ==
    IF Has(p, "email") /\ EmailStr(p.email) # ""
    THEN IF GetStr(p, "nickname") # "" THEN p.nickname
         ELSE IF GetStr(p, "name") # "" THEN p.name
         ELSE IF GetStr(p, "username") # "" THEN p.username
         ELSE LocalPart(p.email)
    ELSE placeholder

\* is_primary and account_name as the directory sets them on one profile
Annotate(p, primary, placeholder) ==
    LET q == Put(p, "is_primary", primary)
    IN  IF GetStr(q, "account_name") = ""
        THEN Put(q, "account_name", DerivedName(q, placeholder))
        ELSE q

\* SubUsers that looks under data before sub_users
SubUsersKeyOrder(body) ==
    IF body.type = "dict" THEN
        IF GetSeq(body.value, "data") # <<>> THEN body.value.data
        ELSE IF GetSeq(body.value, "sub_users") # <<>> THEN body.value.sub_users
        ELSE GetSeq(body.value, "users")
    ELSE IF body.type = "list" THEN body.value
    ELSE <<>>

\* the sub-user sequence taken from the decoded sub-user response
SubUsers(body) ==
    IF body.type = "dict" THEN
        IF GetSeq(body.value, "sub_users") # <<>> THEN body.value.sub_users
        ELSE IF GetSeq(body.value, "data") # <<>> THEN body.value.data
        ELSE GetSeq(body.value, "users")
    ELSE IF body.type = "list" THEN body.value
    ELSE <<>>

\* ListAllProfiles with the sub-users ahead of the primary profile
ListAllProfilesSubsFirst(prim, sub) ==
    LET primary_user == GetSeq(prim.data, "user_info")
        first == IF prim.ok /\ primary_user # EmptyDict
                 THEN <<Annotate(primary_user, TRUE, "Profilo Primario")>>
                 ELSE <<>>
        subs == IF sub.ok THEN SubUsers(sub.data) ELSE <<>>
        rest == [j \in 1..Len(subs) |->
                    Annotate(subs[j], FALSE, "Profilo " \o ToStr(j + 1))]
    IN  rest \o first

\* ListAllProfiles that gives up when the primary-user request failed
ListAllProfilesPrimaryFatal(prim, sub) ==
    LET primary_user == GetSeq(prim.data, "user_info")
        first == IF primary_user # EmptyDict
                 THEN <<Annotate(primary_user, TRUE, "Profilo Primario")>>
                 ELSE <<>>
        subs == IF sub.ok THEN SubUsers(sub.data) ELSE <<>>
        rest == [j \in 1..Len(subs) |->
                    Annotate(subs[j], FALSE, "Profilo " \o ToStr(j + 1))]
    IN  IF prim.ok THEN first \o rest ELSE <<>>

\* the profiles async_list_all_profiles returns for the two responses
ListAllProfiles(prim, sub) ==
    LET primary_user == GetSeq(prim.data, "user_info")
        first == IF prim.ok /\ primary_user # EmptyDict
                 THEN <<Annotate(primary_user, TRUE, "Profilo Primario")>>
                 ELSE <<>>
        subs == IF sub.ok THEN SubUsers(sub.data) ELSE <<>>
        rest == [j \in 1..Len(subs) |->
                    Annotate(subs[j], FALSE, "Profilo " \o ToStr(j + 1))]
    IN  first \o rest

DirectoryRequests == <<Req(PATH_GET_PRIMARY_USER, EmptyDict),
                       Req(PATH_SUB_USERS, EmptyDict)>>

---------------------------------------------------------------------------
(* async_fetch_all: the code of one loop iteration *)

Range(s) == {s[j] : j \in 1..Len(s)}

\* SelectTargets that fetches the whole directory whatever the selection
SelectTargetsIgnoringSelection(all_profiles, sel) == all_profiles

\* profiles_to_fetch
SelectTargets(all_profiles, sel) ==
    IF sel # <<>>
    THEN SelectSeq(all_profiles, LAMBDA p : StrUserId(p) \in Range(sel))
    ELSE all_profiles

\* ResolveCursor with the profile's own time stamp taken before the stored cursor
ResolveCursorProfileFirst(m, profile) ==
    LET uid == StrUserId(profile)
        last_known_meta == IF uid \in DOMAIN m THEN m[uid] ELSE EmptyDict
        last_known_updated_at == GetInt(last_known_meta, "last_updated_at")
        primary_ts == GetInt(profile, "time_stamp")
    IN  [last_known_updated_at |-> last_known_updated_at,
         primary_ts |-> primary_ts,
         request_last_updated_at |->
             IF primary_ts > 0 THEN primary_ts
             ELSE IF last_known_updated_at > 0 THEN last_known_updated_at
             ELSE 0,
         last_measurement_id |-> GetInt(last_known_meta, "last_measurement_id")]

\* the request cursor of a profile: last_known_updated_at, primary_ts,
\* request_last_updated_at and last_measurement_id
ResolveCursor(m, profile) ==
    LET uid == StrUserId(profile)
        last_known_meta == IF uid \in DOMAIN m THEN m[uid] ELSE EmptyDict
        last_known_updated_at == GetInt(last_known_meta, "last_updated_at")
        primary_ts == GetInt(profile, "time_stamp")
    IN  [last_known_updated_at |-> last_known_updated_at,
         primary_ts |-> primary_ts,
         request_last_updated_at |->
             IF last_known_updated_at > 0 THEN last_known_updated_at
             ELSE IF primary_ts > 0 THEN primary_ts
             ELSE 0,
         last_measurement_id |-> GetInt(last_known_meta, "last_measurement_id")]

\* the three requests of the fan-out, in the order the tasks are created
FanOutRequests(uid, cur) ==
    <<Req(PATH_USER_SETTINGS, EmptyDict),
      Req(PATH_GOALS, [user_id |-> uid]),
      MeasReq(uid, cur.request_last_updated_at, cur.last_measurement_id)>>

\* GatherResults that keeps nothing when one of the three calls failed
GatherResultsAllOrNothing(results) ==
    IF results[1].ok /\ results[2].ok /\ results[3].ok
    THEN [user_settings |-> results[1].data, goals |-> results[2].data,
          measurements_data |-> results[3].data]
    ELSE [user_settings |-> EmptyDict, goals |-> EmptyDict,
          measurements_data |-> EmptyDict]

\* user_settings, goals and measurements_data out of the gathered results
GatherResults(results) ==
    [user_settings |-> IF results[1].ok THEN results[1].data ELSE EmptyDict,
     goals |-> IF results[2].ok THEN results[2].data ELSE EmptyDict,
     measurements_data |-> IF results[3].ok THEN results[3].data ELSE EmptyDict]

\* NeedsFallback with the comparison of the two time stamps inverted
NeedsFallbackInverted(measurements_list, primary_ts, last_known_updated_at) ==
    /\ measurements_list = <<>>
    /\ primary_ts # 0
    /\ primary_ts = last_known_updated_at

\* NeedsFallback with the time stamp compared to the request cursor
NeedsFallbackVsRequest(measurements_list, primary_ts, last_known_updated_at) ==
    /\ measurements_list = <<>>
    /\ primary_ts # 0
    /\ primary_ts # (IF last_known_updated_at > 0 THEN last_known_updated_at
                     ELSE primary_ts)

\* the condition of the fallback retry
NeedsFallback(measurements_list, primary_ts, last_known_updated_at) ==
    /\ measurements_list = <<>>
    /\ primary_ts # 0
    /\ primary_ts # last_known_updated_at

\* measurements_data after the fallback call
AfterFallback(measurements_data, fallback) ==
    IF fallback.ok THEN fallback.data ELSE measurements_data

\* UpdateCursor without the tests for a non-zero value
UpdateCursorStoresZero(m, uid, measurements_data) ==
    LET e0 == IF uid \in DOMAIN m THEN m[uid] ELSE EmptyDict
        e1 == Put(e0, "last_updated_at", GetInt(measurements_data, "last_updated_at"))
    IN  Put(m, uid, Put(e1, "last_measurement_id",
                        GetInt(measurements_data, "last_measurement_id")))

\* UpdateCursor that writes last_measurement_id only along with last_updated_at
UpdateCursorCoupled(m, uid, measurements_data) ==
    LET returned_last_updated_at == GetInt(measurements_data, "last_updated_at")
        returned_last_measurement_id ==
            GetInt(measurements_data, "last_measurement_id")
        e0 == IF uid \in DOMAIN m THEN m[uid] ELSE EmptyDict
        e1 == Put(e0, "last_updated_at", returned_last_updated_at)
        e2 == IF returned_last_measurement_id # 0
              THEN Put(e1, "last_measurement_id", returned_last_measurement_id)
              ELSE e1
    IN  Put(m, uid, IF returned_last_updated_at # 0 THEN e2 ELSE e0)

\* UpdateCursor that only moves last_updated_at forward
UpdateCursorOnlyForward(m, uid, measurements_data) ==
    LET returned_last_updated_at == GetInt(measurements_data, "last_updated_at")
        returned_last_measurement_id ==
            GetInt(measurements_data, "last_measurement_id")
        e0 == IF uid \in DOMAIN m THEN m[uid] ELSE EmptyDict
        e1 == IF returned_last_updated_at > GetInt(e0, "last_updated_at")
              THEN Put(e0, "last_updated_at", returned_last_updated_at)
              ELSE e0
        e2 == IF returned_last_measurement_id # 0
              THEN Put(e1, "last_measurement_id", returned_last_measurement_id)
              ELSE e1
    IN  Put(m, uid, e2)

\* UpdateCursor that keeps the entry of profile uid alone
UpdateCursorDropsOthers(m, uid, measurements_data) ==
    LET returned_last_updated_at == GetInt(measurements_data, "last_updated_at")
        returned_last_measurement_id ==
            GetInt(measurements_data, "last_measurement_id")
        e0 == IF uid \in DOMAIN m THEN m[uid] ELSE EmptyDict
        e1 == IF returned_last_updated_at # 0
              THEN Put(e0, "last_updated_at", returned_last_updated_at)
              ELSE e0
        e2 == IF returned_last_measurement_id # 0
              THEN Put(e1, "last_measurement_id", returned_last_measurement_id)
              ELSE e1
    IN  Put(EmptyDict, uid, e2)

\* _last_measurements_meta after the cursor update for profile uid
UpdateCursor(m, uid, measurements_data) ==
    LET returned_last_updated_at == GetInt(measurements_data, "last_updated_at")
        returned_last_measurement_id ==
            GetInt(measurements_data, "last_measurement_id")
        e0 == IF uid \in DOMAIN m THEN m[uid] ELSE EmptyDict
        e1 == IF returned_last_updated_at # 0
              THEN Put(e0, "last_updated_at", returned_last_updated_at)
              ELSE e0
        e2 == IF returned_last_measurement_id # 0
              THEN Put(e1, "last_measurement_id", returned_last_measurement_id)
              ELSE e1
    IN  Put(m, uid, e2)

\* Snapshot that takes the newest measurement instead of the first
SnapshotNewest(measurements_data) ==
    LET measurements_list == GetSeq(measurements_data, "measurements")
        s0 == [measurements |-> measurements_list]
        newest == CHOOSE x \in Range(measurements_list) :
                      \A y \in Range(measurements_list) : y <= x
        s1 == IF measurements_list # <<>>
              THEN Put(s0, "last_measurement", newest)
              ELSE s0
    IN  IF Has(measurements_data, "last_updated_at")
        THEN Put(s1, "last_updated_at", measurements_data.last_updated_at)
        ELSE s1

\* Snapshot that keeps the last_measurement of the payload the coordinator
\* holds when the response brings no measurement
SnapshotCarryOver(measurements_data) ==
    LET measurements_list == GetSeq(measurements_data, "measurements")
        s0 == [measurements |-> measurements_list]
        old == IF data = <<>> THEN {}
               ELSE {data.profiles[i].measurements.last_measurement :
                        i \in {j \in 1..Len(data.profiles) :
                                  Has(data.profiles[j].measurements,
                                      "last_measurement")}}
        s1 == IF measurements_list # <<>>
              THEN Put(s0, "last_measurement", measurements_list[1])
              ELSE IF old # {}
                   THEN Put(s0, "last_measurement", CHOOSE x \in old : TRUE)
                   ELSE s0
    IN  IF Has(measurements_data, "last_updated_at")
        THEN Put(s1, "last_updated_at", measurements_data.last_updated_at)
        ELSE s1

\* Snapshot that reports a last_measurement only when the payload the
\* coordinator holds does not report it already
SnapshotOnlyNew(measurements_data) ==
    LET measurements_list == GetSeq(measurements_data, "measurements")
        s0 == [measurements |-> measurements_list]
        held == IF data = <<>> THEN {}
                ELSE {data.profiles[i].measurements.last_measurement :
                         i \in {j \in 1..Len(data.profiles) :
                                   Has(data.profiles[j].measurements,
                                       "last_measurement")}}
        s1 == IF measurements_list # <<>> /\ measurements_list[1] \notin held
              THEN Put(s0, "last_measurement", measurements_list[1])
              ELSE s0
    IN  IF Has(measurements_data, "last_updated_at")
        THEN Put(s1, "last_updated_at", measurements_data.last_updated_at)
        ELSE s1

\* the "measurements" part of a profile record
Snapshot(measurements_data) ==
    LET measurements_list == GetSeq(measurements_data, "measurements")
        s0 == [measurements |-> measurements_list]
        s1 == IF measurements_list # <<>>
              THEN Put(s0, "last_measurement", measurements_list[1])
              ELSE s0
    IN  IF Has(measurements_data, "last_updated_at")
        THEN Put(s1, "last_updated_at", measurements_data.last_updated_at)
        ELSE s1

\* profile_data
ProfileData(profile, user_settings, goals, measurements_data) ==
    [user_info |-> profile,
     user_settings |-> user_settings,
     goals |-> goals,
     measurements |-> Snapshot(measurements_data)]

---------------------------------------------------------------------------
(* async_fetch_all: the device join *)

ModelKey(d) == <<GetOpt(d, "scale_name"), GetOpt(d, "internal_model")>>

\* the smallest index of the set hits, 0 when it is empty: the first entry wins
FirstIndex(hits) ==
    IF hits = {} THEN 0 ELSE CHOOSE j \in hits : \A k \in hits : j <= k

\* model_by_scale_and_internal.get(key): <<>> when there is no entry
ByScaleAndInternal(device_models, key) ==
    LET j == FirstIndex({i \in 1..Len(device_models) :
                            ModelKey(device_models[i]) = key})
    IN  IF j = 0 THEN <<>> ELSE <<device_models[j]>>

\* ByScale where the last model with the scale name wins
ByScaleLastWins(device_models, scale) ==
    LET hits == {i \in 1..Len(device_models) :
                    /\ GetStr(device_models[i], "scale_name") # ""
                    /\ GetStr(device_models[i], "scale_name") = scale}
    IN  IF hits = {} THEN <<>>
        ELSE <<device_models[CHOOSE j \in hits : \A k \in hits : k <= j]>>

\* model_by_scale.get(scale): only models with a truthy scale_name are entered
ByScale(device_models, scale) ==
    LET j == FirstIndex({i \in 1..Len(device_models) :
                            /\ GetStr(device_models[i], "scale_name") # ""
                            /\ GetStr(device_models[i], "scale_name") = scale})
    IN  IF j = 0 THEN <<>> ELSE <<device_models[j]>>

\* Enrich that looks the scale name up before the composite key
EnrichByScaleFirst(d, device_models) ==
    LET m1 == ByScale(device_models, GetStr(d, "scale_name"))
        m2 == IF m1 = <<>> \/ m1 = <<EmptyDict>>
              THEN ByScaleAndInternal(device_models, ModelKey(d))
              ELSE m1
        matched == m2 # <<>> /\ m2 # <<EmptyDict>>
        brand == IF matched THEN GetSeq(m2[1], "brand_info") ELSE EmptyDict
        e1 == IF matched THEN Put(d, "model_info", m2[1]) ELSE d
    IN  IF matched /\ GetStr(brand, "brand_name") # ""
        THEN Put(e1, "brand_name", brand.brand_name)
        ELSE e1

\* the merged record of one device binding
Enrich(d, device_models) ==
    LET m1 == ByScaleAndInternal(device_models, ModelKey(d))
        m2 == IF m1 = <<>> \/ m1 = <<EmptyDict>>
              THEN ByScale(device_models, GetStr(d, "scale_name"))
              ELSE m1
        matched == m2 # <<>> /\ m2 # <<EmptyDict>>
        brand == IF matched THEN GetSeq(m2[1], "brand_info") ELSE EmptyDict
        e1 == IF matched THEN Put(d, "model_info", m2[1]) ELSE d
    IN  IF matched /\ GetStr(brand, "brand_name") # ""
        THEN Put(e1, "brand_name", brand.brand_name)
        ELSE e1

\* the "device_binds" part of the payload
DeviceJoin(binds) ==
    LET device_binds_data == IF binds.ok THEN binds.data ELSE EmptyDict
        device_binds == GetSeq(device_binds_data, "device_binds")
        device_models == GetSeq(device_binds_data, "device_models")
    IN  [device_binds |-> [j \in 1..Len(device_binds) |->
                              Enrich(device_binds[j], device_models)],
         device_models |-> device_models]

\* BindsAfterJoin for a join that stores each merged record in the response
BindsAfterJoinInPlace(binds) ==
    IF binds.ok /\ Has(binds.data, "device_binds")
    THEN Put(binds.data, "device_binds", DeviceJoin(binds).device_binds)
    ELSE IF binds.ok THEN binds.data ELSE EmptyDict

\* the local device_binds_data once the join has run: every merged record is
\* a copy (dict(d)), so the response is as it was received
BindsAfterJoin(binds) == IF binds.ok THEN binds.data ELSE EmptyDict

\* the value async_fetch_all returns
Payload(f, binds) ==
    [profiles |-> f.all_profiles_data,
     all_profiles |-> f.all_profiles,
     device_binds |-> DeviceJoin(binds),
     primary_user |-> f.primary_data]

---------------------------------------------------------------------------
(* State *)

\* no async_fetch_all is running or has just returned
NoFrame ==
    [caller |-> "", all_profiles |-> <<>>, primary_data |-> EmptyDict,
     profiles_to_fetch |-> <<>>, all_profiles_data |-> <<>>, done |-> 0,
     cursor |-> EmptyDict, results |-> <<>>, fallback |-> <<>>,
     measurements_data |-> EmptyDict,
     \* what the run has seen, kept for the properties: whether a directory
     \* call succeeded, the device binds response, and the cursor map as it
     \* was when the current iteration began
     dir_ok |-> FALSE, binds |-> <<>>, meta0 |-> EmptyDict,
     \* the input of the last async_login or async_list_all_profiles
     seen |-> <<>>,
     \* the local device_binds_data when the run returns
     device_binds_data |-> EmptyDict,
     \* the cursor map as it was when the run began, and as it was when the
     \* coordinator's previous run began (<<>>: the coordinator has not just
     \* completed a run before this one)
     start |-> EmptyDict, prev_start |-> <<>>,
     \* the tasks of the gather that have not completed, and the order in
     \* which the others completed
     pending |-> {}, order |-> <<>>,
     \* the server-side dataset that answered the measurement requests of the
     \* run, and the one of the coordinator's previous run, where the
     \* specification names one
     server |-> <<>>, prev_server |-> <<>>]

\* Home Assistant before the integration is set up: the selection stored in
\* entry.data and the one stored in entry.options (<<>>: none); the
\* identifiers of the device registry; the entities of the entity registry;
\* and what the last options update saw and removed (<<>>: none yet)
NoHass ==
    [entry_data |-> <<>>, entry_options |-> <<>>,
     devices |-> {}, entities |-> {}, update |-> <<>>,
     sensors |-> {}, states |-> <<>>]

Outcome(op, raised, update_failed) ==
    [op |-> op, raised |-> raised, update_failed |-> update_failed]

Init ==
    /\ token = ""
    /\ token_expires = <<>>
    /\ user_info = EmptyDict
    /\ meta = EmptyDict
    /\ selected_profiles = <<>>
    /\ data = <<>>
    /\ pc = "idle"
    /\ frame = NoFrame
    /\ log = <<>>
    /\ ret = <<>>
    /\ last = Outcome("__init__", NoError, FALSE)
    /\ hass = NoHass

---------------------------------------------------------------------------
(* Operations *)

\* async_login with the response in.resp at time in.now
async_login(in) ==
    LET r == Login(in.resp, in.now)
    IN  /\ pc = "idle"
        /\ token' = r.token
        /\ token_expires' = r.token_expires
        /\ user_info' = r.user_info
        /\ log' = <<Req(PATH_LOGIN, EmptyDict)>>
        /\ last' = Outcome("async_login", r.raised, FALSE)
        /\ frame' = [NoFrame EXCEPT !.seen = <<in>>]
        /\ ret' = r.carries
        /\ UNCHANGED <<meta, selected_profiles, data, pc, hass>>

\* ApiCall without the token check
ApiCallNoTokenCheck(op, req, resp) ==
    /\ pc = "idle"
    /\ log' = <<req>>
    /\ last' = Outcome(op, IF resp.ok THEN NoError ELSE RequestFailed, FALSE)
    /\ frame' = NoFrame
    /\ ret' = <<>>
    /\ UNCHANGED hass
    /\ UNCHANGED <<token, token_expires, user_info, meta, selected_profiles,
                   data, pc>>

\* an authenticated call that issues one GET: the token check, then _get
ApiCall(op, req, resp) ==
    /\ pc = "idle"
    /\ IF token = ""
       THEN /\ log' = <<>>
            /\ last' = Outcome(op, NotAuthenticated, FALSE)
            /\ ret' = <<>>
       ELSE /\ log' = <<req>>
            /\ last' = Outcome(op, IF resp.ok THEN NoError ELSE RequestFailed,
                               FALSE)
            /\ ret' = IF resp.ok THEN resp.data ELSE <<>>
    /\ frame' = NoFrame
    /\ UNCHANGED hass
    /\ UNCHANGED <<token, token_expires, user_info, meta, selected_profiles,
                   data, pc>>

async_get_primary_user(resp) ==
    ApiCall("async_get_primary_user", Req(PATH_GET_PRIMARY_USER, EmptyDict), resp)

async_get_user_settings(resp) ==
    ApiCall("async_get_user_settings", Req(PATH_USER_SETTINGS, EmptyDict), resp)

async_list_goals(uid, resp) ==
    ApiCall("async_list_goals", Req(PATH_GOALS, [user_id |-> uid]), resp)

async_list_device_binds(resp) ==
    ApiCall("async_list_device_binds", Req(PATH_DEVICE_BINDS, EmptyDict), resp)

async_get_last_measurements(uid, lua, lmid, resp) ==
    ApiCall("async_get_last_measurements", MeasReq(uid, lua, lmid), resp)

\* a decoded JSON value: null, a boolean, a number, a string, a list or a
\* mapping from keys to such values
JNull == [null |-> TRUE]
JBool(b) == [bool |-> b]
JNum(n) == [int |-> n]
JStr(x) == [str |-> x]
JList(q) == [list |-> q]
JDict(d) == [dict |-> d]

\* the truth value Python gives a decoded JSON value
Truthy(v) ==
    /\ ~Has(v, "null")
    /\ Has(v, "bool") => v.bool
    /\ Has(v, "int") => v.int # 0
    /\ Has(v, "str") => v.str # ""
    /\ Has(v, "list") => v.list # <<>>
    /\ Has(v, "dict") => v.dict # EmptyDict

\* what the server's answer h is when the request raises nothing
GetResult(h) ==
    LET result == h.body
    IN  IF Has(result, "dict") /\ Has(result.dict, "data")
        THEN IF Truthy(result.dict.data) THEN result.dict.data
             ELSE JDict(EmptyDict)
        ELSE result

\* Get that takes every 2xx status as a success
GetAny2xx(h) ==
    IF h.raises \/ h.status \notin 200..299 \/ ~h.decodable
    THEN [ok |-> FALSE, value |-> JNull]
    ELSE [ok |-> TRUE, value |-> GetResult(h)]

\* _get: the outcome of one GET whose transport raises or answers with a
\* status and a body that resp.json() decodes or not
Get(h) ==
    IF h.raises \/ h.status # 200 \/ ~h.decodable
    THEN [ok |-> FALSE, value |-> JNull]
    ELSE [ok |-> TRUE, value |-> GetResult(h)]

\* an authenticated call that issues one GET, with the answer of the server
\* as it arrives over HTTP
GetCall(op, req, h) ==
    /\ pc = "idle"
    /\ IF token = ""
       THEN /\ log' = <<>>
            /\ last' = Outcome(op, NotAuthenticated, FALSE)
            /\ ret' = <<>>
            /\ frame' = NoFrame
       ELSE /\ log' = <<req>>
            /\ last' = Outcome(op, IF Get(h).ok THEN NoError ELSE RequestFailed,
                               FALSE)
            /\ ret' = IF Get(h).ok THEN Get(h).value ELSE <<>>
            /\ frame' = [NoFrame EXCEPT !.seen = <<h>>]
    /\ UNCHANGED hass
    /\ UNCHANGED <<token, token_expires, user_info, meta, selected_profiles,
                   data, pc>>

\* async_list_all_profiles called on its own: both requests are caught
async_list_all_profiles(in) ==
    /\ pc = "idle"
    /\ IF token = ""
       THEN /\ log' = <<>>
            /\ last' = Outcome("async_list_all_profiles", NotAuthenticated, FALSE)
            /\ ret' = <<>>
       ELSE /\ log' = DirectoryRequests
            /\ last' = Outcome("async_list_all_profiles", NoError, FALSE)
            /\ ret' = ListAllProfiles(in.prim, in.sub)
    /\ frame' = [NoFrame EXCEPT !.seen = <<in>>]
    /\ UNCHANGED hass
    /\ UNCHANGED <<token, token_expires, user_info, meta, selected_profiles,
                   data, pc>>

\* FetchStart that forgets the expiry of the token
FetchStartDropsExpiry(in, caller) ==
    /\ pc = "idle"
    /\ ret' = <<>>
    /\ IF token = ""
       THEN /\ last' = Outcome("async_fetch_all", NotAuthenticated,
                               caller = "coordinator")
            /\ log' = <<>>
            /\ frame' = NoFrame
            /\ UNCHANGED <<user_info, pc>>
       ELSE LET all_profiles == ListAllProfiles(in.prim, in.sub)
                primary_data == IF in.prim2.ok THEN in.prim2.data ELSE EmptyDict
            IN  /\ user_info' = IF Has(primary_data, "user_info")
                                   /\ primary_data.user_info # EmptyDict
                                THEN primary_data.user_info
                                ELSE user_info
                /\ frame' = [NoFrame EXCEPT
                       !.caller = caller,
                       !.start = meta,
                       !.prev_start =
                           IF /\ caller = "coordinator"
                              /\ frame.caller = "coordinator"
                              /\ frame.binds # <<>>
                           THEN <<frame.start>> ELSE <<>>,
                       !.prev_server =
                           IF /\ caller = "coordinator"
                              /\ frame.caller = "coordinator"
                              /\ frame.binds # <<>>
                           THEN frame.server ELSE <<>>,
                       !.dir_ok = in.prim.ok \/ in.sub.ok \/ in.prim2.ok,
                       !.all_profiles = all_profiles,
                       !.primary_data = primary_data,
                       !.profiles_to_fetch =
                           SelectTargets(all_profiles, selected_profiles)]
                /\ log' = DirectoryRequests
                          \o <<Req(PATH_GET_PRIMARY_USER, EmptyDict)>>
                /\ pc' = "loop"
                /\ UNCHANGED last
    /\ token_expires' = <<>>
    /\ UNCHANGED hass
    /\ UNCHANGED <<token, meta, selected_profiles, data>>

\* the start of async_fetch_all: the token check, the directory (in.prim,
\* in.sub), the second primary-user call (in.prim2) and the targets.  The
\* caller is the coordinator's update method or a direct caller.
FetchStart(in, caller) ==
    /\ pc = "idle"
    /\ ret' = <<>>
    /\ IF token = ""
       THEN /\ last' = Outcome("async_fetch_all", NotAuthenticated,
                               caller = "coordinator")
            /\ log' = <<>>
            /\ frame' = NoFrame
            /\ UNCHANGED <<user_info, pc>>
       ELSE LET all_profiles == ListAllProfiles(in.prim, in.sub)
                primary_data == IF in.prim2.ok THEN in.prim2.data ELSE EmptyDict
            IN  /\ user_info' = IF Has(primary_data, "user_info")
                                   /\ primary_data.user_info # EmptyDict
                                THEN primary_data.user_info
                                ELSE user_info
                /\ frame' = [NoFrame EXCEPT
                       !.caller = caller,
                       !.start = meta,
                       !.prev_start =
                           IF /\ caller = "coordinator"
                              /\ frame.caller = "coordinator"
                              /\ frame.binds # <<>>
                           THEN <<frame.start>> ELSE <<>>,
                       !.prev_server =
                           IF /\ caller = "coordinator"
                              /\ frame.caller = "coordinator"
                              /\ frame.binds # <<>>
                           THEN frame.server ELSE <<>>,
                       !.dir_ok = in.prim.ok \/ in.sub.ok \/ in.prim2.ok,
                       !.all_profiles = all_profiles,
                       !.primary_data = primary_data,
                       !.profiles_to_fetch =
                           SelectTargets(all_profiles, selected_profiles)]
                /\ log' = DirectoryRequests
                          \o <<Req(PATH_GET_PRIMARY_USER, EmptyDict)>>
                /\ pc' = "loop"
                /\ UNCHANGED last
    /\ UNCHANGED hass
    /\ UNCHANGED <<token, token_expires, meta, selected_profiles, data>>

\* async_fetch_all called directly (the initial fetch of async_setup_entry)
async_fetch_all(in) == FetchStart(in, "setup")

\* the coordinator's update method calls async_fetch_all
async_update_data(in) == FetchStart(in, "coordinator")

\* FinishProfile that stores the last_updated_at the request carried when
\* the response reports none
FinishProfileStoresRequest(f, profile, g, measurements_data) ==
    /\ meta' = UpdateCursor(meta, StrUserId(profile),
                            IF GetInt(measurements_data, "last_updated_at") # 0
                            THEN measurements_data
                            ELSE Put(measurements_data, "last_updated_at",
                                     f.cursor.request_last_updated_at))
    /\ frame' = [f EXCEPT
           !.measurements_data = measurements_data,
           !.all_profiles_data =
               Append(@, ProfileData(profile, g.user_settings, g.goals,
                                     measurements_data)),
           !.done = @ + 1]
    /\ pc' = "loop"

\* the end of a loop iteration: the cursor update and the profile record
FinishProfile(f, profile, g, measurements_data) ==
    /\ meta' = UpdateCursor(meta, StrUserId(profile), measurements_data)
    /\ frame' = [f EXCEPT
           !.measurements_data = measurements_data,
           !.all_profiles_data =
               Append(@, ProfileData(profile, g.user_settings, g.goals,
                                     measurements_data)),
           !.done = @ + 1]
    /\ pc' = "loop"

\* AfterGather that retries only after a measurements call that succeeded
AfterGatherRetryOnSuccess(f0, profile, cur, results, issued) ==
    LET uid == StrUserId(profile)
        g == GatherResults(results)
        f == [f0 EXCEPT !.cursor = cur, !.results = results,
                        !.fallback = <<>>,
                        !.measurements_data = g.measurements_data]
    IN  IF /\ results[3].ok
           /\ NeedsFallback(GetSeq(g.measurements_data, "measurements"),
                            cur.primary_ts, cur.last_known_updated_at)
        THEN /\ log' = issued \o <<MeasReq(uid, 0, 0)>>
             /\ frame' = f
             /\ pc' = "fallback"
             /\ UNCHANGED meta
        ELSE /\ log' = issued
             /\ FinishProfile(f, profile, g, g.measurements_data)

\* a loop iteration from the results of the gather to the fallback call:
\* issued is the log with the requests of the fan-out
AfterGather(f0, profile, cur, results, issued) ==
    LET uid == StrUserId(profile)
        g == GatherResults(results)
        f == [f0 EXCEPT !.cursor = cur, !.results = results,
                        !.fallback = <<>>,
                        !.measurements_data = g.measurements_data]
    IN  IF NeedsFallback(GetSeq(g.measurements_data, "measurements"),
                         cur.primary_ts, cur.last_known_updated_at)
        THEN /\ log' = issued \o <<MeasReq(uid, 0, 0)>>
             /\ frame' = f
             /\ pc' = "fallback"
             /\ UNCHANGED meta
        ELSE /\ log' = issued
             /\ FinishProfile(f, profile, g, g.measurements_data)

\* one loop iteration up to the fallback call: the request cursor, the
\* fan-out with its three results, and the fallback condition
ProfileStep(in) ==
    /\ pc = "loop"
    /\ frame.done < Len(frame.profiles_to_fetch)
    /\ LET profile == frame.profiles_to_fetch[frame.done + 1]
           cur == ResolveCursor(meta, profile)
       IN  AfterGather([frame EXCEPT !.meta0 = meta], profile, cur,
                       <<in.settings, in.goals, in.meas>>,
                       log \o FanOutRequests(StrUserId(profile), cur))
    /\ UNCHANGED hass
    /\ UNCHANGED <<token, token_expires, user_info, selected_profiles, data,
                   ret, last>>

\* GatherStart that also issues the requests of the profile after this one
GatherStartPrefetch ==
    /\ pc = "loop"
    /\ frame.done < Len(frame.profiles_to_fetch)
    /\ LET profile == frame.profiles_to_fetch[frame.done + 1]
           cur == ResolveCursor(meta, profile)
           ahead == IF frame.done + 1 < Len(frame.profiles_to_fetch)
                    THEN LET next == frame.profiles_to_fetch[frame.done + 2]
                         IN  FanOutRequests(StrUserId(next),
                                            ResolveCursor(meta, next))
                    ELSE <<>>
       IN  /\ frame' = [frame EXCEPT !.cursor = cur, !.meta0 = meta,
                                     !.results = <<Fail, Fail, Fail>>,
                                     !.fallback = <<>>,
                                     !.pending = {1, 2, 3}, !.order = <<>>]
           /\ log' = log \o FanOutRequests(StrUserId(profile), cur) \o ahead
    /\ pc' = "gather"
    /\ UNCHANGED hass
    /\ UNCHANGED <<token, token_expires, user_info, meta, selected_profiles,
                   data, ret, last>>

\* the same iteration with the three tasks of the gather as they complete.
\* GatherStart: the request cursor is resolved and the three tasks are made
GatherStart ==
    /\ pc = "loop"
    /\ frame.done < Len(frame.profiles_to_fetch)
    /\ LET profile == frame.profiles_to_fetch[frame.done + 1]
           cur == ResolveCursor(meta, profile)
       IN  /\ frame' = [frame EXCEPT !.cursor = cur, !.meta0 = meta,
                                     !.results = <<Fail, Fail, Fail>>,
                                     !.fallback = <<>>,
                                     !.pending = {1, 2, 3}, !.order = <<>>]
           /\ log' = log \o FanOutRequests(StrUserId(profile), cur)
    /\ pc' = "gather"
    /\ UNCHANGED hass
    /\ UNCHANGED <<token, token_expires, user_info, meta, selected_profiles,
                   data, ret, last>>

\* task i of the gather completes with resp: its result or its exception
TaskDone(i, resp) ==
    /\ pc = "gather"
    /\ i \in frame.pending
    /\ frame' = [frame EXCEPT !.results[i] = resp,
                              !.pending = @ \ {i},
                              !.order = Append(@, i)]
    /\ UNCHANGED hass
    /\ UNCHANGED <<token, token_expires, user_info, meta, selected_profiles,
                   data, pc, log, ret, last>>

\* GatherJoin that resumes as soon as one task has completed
GatherJoinEarly ==
    /\ pc = "gather"
    /\ frame.pending # {1, 2, 3}
    /\ AfterGather(frame, frame.profiles_to_fetch[frame.done + 1],
                   frame.cursor, frame.results, log)
    /\ UNCHANGED hass
    /\ UNCHANGED <<token, token_expires, user_info, selected_profiles, data,
                   ret, last>>

\* await asyncio.gather(..., return_exceptions=True) resumes: every task has
\* completed and the results stand in the order the tasks were made
GatherJoin ==
    /\ pc = "gather"
    /\ frame.pending = {}
    /\ AfterGather(frame, frame.profiles_to_fetch[frame.done + 1],
                   frame.cursor, frame.results, log)
    /\ UNCHANGED hass
    /\ UNCHANGED <<token, token_expires, user_info, selected_profiles, data,
                   ret, last>>

\* FallbackStep that issues the retry once more when the first retry failed
FallbackStepTwice(resp) ==
    /\ pc = "fallback"
    /\ IF ~resp.ok /\ frame.fallback = <<>>
       THEN /\ frame' = [frame EXCEPT !.fallback = <<resp>>]
            /\ log' = Append(log, MeasReq(StrUserId(
                           frame.profiles_to_fetch[frame.done + 1]), 0, 0))
            /\ UNCHANGED <<meta, pc>>
       ELSE /\ LET profile == frame.profiles_to_fetch[frame.done + 1]
                   g == GatherResults(frame.results)
                   f == [frame EXCEPT !.fallback = <<resp>>]
               IN  FinishProfile(f, profile, g,
                                 AfterFallback(g.measurements_data, resp))
            /\ UNCHANGED log
    /\ UNCHANGED hass
    /\ UNCHANGED <<token, token_expires, user_info, selected_profiles, data,
                   ret, last>>

\* the rest of a loop iteration once the fallback call has ended
FallbackStep(resp) ==
    /\ pc = "fallback"
    /\ LET profile == frame.profiles_to_fetch[frame.done + 1]
           g == GatherResults(frame.results)
           f == [frame EXCEPT !.fallback = <<resp>>]
       IN  FinishProfile(f, profile, g, AfterFallback(g.measurements_data, resp))
    /\ UNCHANGED hass
    /\ UNCHANGED <<token, token_expires, user_info, selected_profiles, data,
                   log, ret, last>>

\* the answer of a server that holds the dataset server to the measurements
\* request with cursor lua, lmid: the list when the server is not
\* incremental or the cursor is behind the dataset, and the dataset's stamps
ServerMeas(server, lua, lmid) ==
    LET fresh == \/ ~server.incremental
                 \/ lua < server.stamp
                 \/ lmid < server.id
        b0 == [measurements |-> IF fresh THEN server.list ELSE <<>>]
        b1 == IF server.stamp # 0 THEN Put(b0, "last_updated_at", server.stamp)
              ELSE b0
    IN  IF server.id # 0 THEN Put(b1, "last_measurement_id", server.id) ELSE b1

\* ProfileStep with the measurements request answered by the dataset, which
\* is the same for every profile of the run
ServedProfileStep(in, server) ==
    /\ pc = "loop"
    /\ frame.done < Len(frame.profiles_to_fetch)
    /\ frame.done = 0 \/ server = frame.server
    /\ LET profile == frame.profiles_to_fetch[frame.done + 1]
           cur == ResolveCursor(meta, profile)
       IN  AfterGather([frame EXCEPT !.meta0 = meta, !.server = server],
                       profile, cur,
                       <<in.settings, in.goals,
                         Ok(ServerMeas(server, cur.request_last_updated_at,
                                       cur.last_measurement_id))>>,
                       log \o FanOutRequests(StrUserId(profile), cur))
    /\ UNCHANGED hass
    /\ UNCHANGED <<token, token_expires, user_info, selected_profiles, data,
                   ret, last>>

\* FallbackStep with the retry answered by the dataset
ServedFallbackStep == FallbackStep(Ok(ServerMeas(frame.server, 0, 0)))

\* BindsStep that asks for the device binds once per fetched profile
BindsStepPerProfile(resp) ==
    /\ pc = "loop"
    /\ frame.done = Len(frame.profiles_to_fetch)
    /\ log' = log \o [j \in 1..frame.done |-> Req(PATH_DEVICE_BINDS, EmptyDict)]
    /\ ret' = Payload(frame, resp)
    /\ data' = IF frame.caller = "coordinator" THEN Payload(frame, resp) ELSE data
    /\ last' = Outcome("async_fetch_all", NoError, FALSE)
    /\ pc' = "idle"
    /\ frame' = [frame EXCEPT !.binds = <<resp>>,
                              !.device_binds_data = BindsAfterJoin(resp)]
    /\ UNCHANGED hass
    /\ UNCHANGED <<token, token_expires, user_info, meta, selected_profiles>>

\* after the loop: the device binds call, the join, the payload; the
\* coordinator publishes what its update method returns
BindsStep(resp) ==
    /\ pc = "loop"
    /\ frame.done = Len(frame.profiles_to_fetch)
    /\ log' = Append(log, Req(PATH_DEVICE_BINDS, EmptyDict))
    /\ ret' = Payload(frame, resp)
    /\ data' = IF frame.caller = "coordinator" THEN Payload(frame, resp) ELSE data
    /\ last' = Outcome("async_fetch_all", NoError, FALSE)
    /\ pc' = "idle"
    /\ frame' = [frame EXCEPT !.binds = <<resp>>,
                              !.device_binds_data = BindsAfterJoin(resp)]
    /\ UNCHANGED hass
    /\ UNCHANGED <<token, token_expires, user_info, meta, selected_profiles>>

---------------------------------------------------------------------------
(* Inputs *)

Profile1 == [user_id |-> 1, nickname |-> "Ann",
             email |-> [local |-> "ann", rest |-> "@x.com"]]

PrimaryProfiles == {Profile1} \cup {Put(Profile1, "time_stamp", t) : t \in 1..MaxPts}

PrimaryResps == {Fail} \cup {Ok([user_info |-> p]) : p \in PrimaryProfiles}

NoSubUsers == Ok([type |-> "list", value |-> <<>>])

\* the second primary-user call is answered as the first one
DirInputs == {[prim |-> p, sub |-> s, prim2 |-> p] :
                 p \in PrimaryResps, s \in {Fail, NoSubUsers}}

LoginInputs ==
    {[resp |-> Fail, now |-> 0],
     [resp |-> Ok([code |-> StrVal("401")]), now |-> 0],
     [resp |-> Ok([code |-> StrVal("200"),
                   data |-> [token_info |-> [token |-> "abc", remaining_time |-> 3600],
                             user_info |-> Profile1]]),
      now |-> 1]}

Settings1 == [weight_unit |-> "kg"]
Goals1 == [goals |-> <<[goal_type |-> "weight", goal_value |-> 70]>>]

MeasLists == {<<>>, <<1, 2>>}

\* the bodies of a measurements response: empty, complete, or without a
\* last_updated_at
MeasData == {EmptyDict}
    \cup {[measurements |-> l, last_updated_at |-> u, last_measurement_id |-> i] :
            l \in MeasLists, u \in 0..MaxTs, i \in 0..MaxId}
    \cup {[measurements |-> l, last_measurement_id |-> i] :
            l \in MeasLists, i \in 1..MaxId}

MeasResps == {Fail} \cup {Ok(d) : d \in MeasData}

FanOutInputs == {[settings |-> s, goals |-> g, meas |-> m] :
                    s \in {Fail, Ok(Settings1)}, g \in {Fail, Ok(Goals1)},
                    m \in MeasResps}

Bind1 == [scale_name |-> "A", internal_model |-> "m1"]
Model1 == [scale_name |-> "A", internal_model |-> "m1",
           brand_info |-> [brand_name |-> "X"]]

BindsResps == {Fail, Ok([device_binds |-> <<Bind1>>, device_models |-> <<Model1>>])}

---------------------------------------------------------------------------
(* Specification *)

Next ==
    \/ \E in \in LoginInputs : async_login(in)
    \/ \E in \in DirInputs : async_fetch_all(in)
    \/ \E in \in FanOutInputs : ProfileStep(in)
    \/ \E resp \in MeasResps : FallbackStep(resp)
    \/ \E resp \in BindsResps : BindsStep(resp)

Spec == Init /\ [][Next]_vars

---------------------------------------------------------------------------
(* A second specification: the coordinator drives the fetch cycle and the  *)
(* single calls of the client are made on their own, over fewer responses  *)

FewMeasResps ==
    {Fail, Ok(EmptyDict),
     Ok([measurements |-> <<1, 2>>, last_updated_at |-> 1, last_measurement_id |-> 1])}

FewFanOutInputs == {[settings |-> s, goals |-> s, meas |-> m] :
                       s \in {Fail, Ok(Settings1)}, m \in FewMeasResps}

CallResps == {Fail, Ok(EmptyDict)}

FewDirInputs ==
    {[prim |-> Fail, sub |-> Fail, prim2 |-> Fail],
     [prim |-> Fail, sub |-> Fail, prim2 |-> Ok([user_info |-> Profile1])],
     [prim |-> Ok([user_info |-> Put(Profile1, "time_stamp", 1)]),
      sub |-> NoSubUsers,
      prim2 |-> Ok([user_info |-> Put(Profile1, "time_stamp", 1)])]}

NextApi ==
    \/ \E in \in LoginInputs : async_login(in)
    \/ \E resp \in CallResps : async_get_primary_user(resp)
    \/ \E resp \in CallResps : async_get_user_settings(resp)
    \/ \E resp \in CallResps : async_list_goals("1", resp)
    \/ \E resp \in CallResps : async_list_device_binds(resp)
    \/ \E resp \in CallResps : async_get_last_measurements("1", 0, 0, resp)
    \/ \E in \in FewDirInputs : async_list_all_profiles(in)
    \/ \E in \in FewDirInputs : async_fetch_all(in)
    \/ \E in \in FewDirInputs : async_update_data(in)
    \/ \E in \in FewFanOutInputs : ProfileStep(in)
    \/ \E resp \in FewMeasResps : FallbackStep(resp)
    \/ \E resp \in BindsResps : BindsStep(resp)

SpecApi == Init /\ [][NextApi]_vars

---------------------------------------------------------------------------
(* A third specification: an account with sub-users and a configured       *)
(* selection of profiles, over few responses                               *)

Profile2 == [user_id |-> 2, nickname |-> "Bob"]
Profile3 == [user_id |-> 3, nickname |-> "Cy", time_stamp |-> 1]

\* the selections the config entry may hold; "9" is no profile of the account
Selections == {<<>>, <<"1">>, <<"2">>, <<"3", "1">>, <<"9">>, <<"2", "9">>}

MultiDirInputs ==
    {[prim |-> Fail, sub |-> Fail, prim2 |-> Fail],
     [prim |-> Ok([user_info |-> Profile1]), sub |-> Fail,
      prim2 |-> Ok([user_info |-> Profile1])],
     [prim |-> Fail, sub |-> Ok([type |-> "list", value |-> <<Profile2>>]),
      prim2 |-> Fail],
     [prim |-> Ok([user_info |-> Profile1]),
      sub |-> Ok([type |-> "list", value |-> <<Profile2, Profile3>>]),
      prim2 |-> Ok([user_info |-> Profile1])],
     [prim |-> Ok([user_info |-> Profile1]),
      sub |-> Ok([type |-> "dict", value |-> [sub_users |-> <<Profile3, Profile2>>]]),
      prim2 |-> Ok([user_info |-> Profile1])]}

MultiMeasResps ==
    {Fail,
     Ok([measurements |-> <<1, 2>>, last_updated_at |-> 1, last_measurement_id |-> 1])}

MultiFanOutInputs == {[settings |-> s, goals |-> s, meas |-> m] :
                         s \in {Fail, Ok(Settings1)}, m \in MultiMeasResps}

\* the state after construction when the config entry holds a selection
InitMulti ==
    /\ token = ""
    /\ token_expires = <<>>
    /\ user_info = EmptyDict
    /\ meta = EmptyDict
    /\ selected_profiles \in Selections
    /\ data = <<>>
    /\ pc = "idle"
    /\ frame = NoFrame
    /\ log = <<>>
    /\ ret = <<>>
    /\ last = Outcome("__init__", NoError, FALSE)
    /\ hass = NoHass

NextMulti ==
    \/ \E in \in LoginInputs : async_login(in)
    \/ \E in \in MultiDirInputs : async_fetch_all(in)
    \/ \E in \in MultiFanOutInputs : ProfileStep(in)
    \/ \E resp \in MultiMeasResps : FallbackStep(resp)
    \/ \E resp \in BindsResps : BindsStep(resp)

SpecMulti == InitMulti /\ [][NextMulti]_vars

---------------------------------------------------------------------------
(* A fourth specification: the device join over many device lists          *)

MaxModels == 2      \* device models in a device binds response: 0..MaxModels

\* the sequences over set S of length 0..n
RECURSIVE SeqsUpTo(_, _)
SeqsUpTo(S, n) ==
    IF n = 0 THEN {<<>>}
    ELSE LET shorter == SeqsUpTo(S, n - 1)
         IN  shorter \cup {Append(q, x) : q \in shorter, x \in S}

\* a record with the fields of d that are given (<<>> is a field left out)
WithOpt(d, k, opt) == IF opt = <<>> THEN d ELSE Put(d, k, opt[1])

JoinBinds ==
    {[device_id |-> "d1", scale_name |-> "A", internal_model |-> "m1"],
     [device_id |-> "d1", scale_name |-> "A", internal_model |-> "zz"],
     [device_id |-> "d1", scale_name |-> "B", internal_model |-> "m1"],
     [device_id |-> "d1", internal_model |-> "m1"]}

JoinModels ==
    {WithOpt([internal_model |-> im, brand_info |-> [brand_name |-> br]],
             "scale_name", sc) :
        im \in {"m1", "m2"}, sc \in {<<>>, <<"A">>}, br \in {"X", "Y"}}
    \cup {[scale_name |-> "A", internal_model |-> "m1",
           brand_info |-> [brand_name |-> ""]],
          [scale_name |-> "A", internal_model |-> "m2"]}

\* a second device of the account
Bind2 == [device_id |-> "d2", scale_name |-> "A", internal_model |-> "m2"]

JoinBindsResps ==
    {Fail} \cup
    {Ok([device_binds |-> <<b>>, device_models |-> ms]) :
        b \in JoinBinds, ms \in SeqsUpTo(JoinModels, MaxModels)} \cup
    {Ok([device_binds |-> <<b, Bind2>>, device_models |-> ms]) :
        b \in JoinBinds, ms \in SeqsUpTo(JoinModels, 1)}

JoinDirInputs ==
    {[prim |-> Fail, sub |-> Fail, prim2 |-> Fail],
     [prim |-> Fail, sub |-> Ok([type |-> "list", value |-> <<Profile3>>]),
      prim2 |-> Fail]}

JoinFanOutInputs ==
    {[settings |-> Fail, goals |-> Fail, meas |-> Fail],
     [settings |-> Ok(Settings1), goals |-> Ok(Goals1),
      meas |-> Ok([measurements |-> <<1, 2>>, last_updated_at |-> 1,
                   last_measurement_id |-> 1])]}

NextJoin ==
    \/ \E in \in LoginInputs : async_login(in)
    \/ \E in \in JoinDirInputs : async_fetch_all(in)
    \/ \E in \in JoinFanOutInputs : ProfileStep(in)
    \/ FallbackStep(Fail)
    \/ \E resp \in JoinBindsResps : BindsStep(resp)

SpecJoin == Init /\ [][NextJoin]_vars

---------------------------------------------------------------------------
(* A fifth specification: the profile directory over many profiles         *)

\* the profiles with user_id uid over the name fields the server may send:
\* each of nickname, name, username and account_name absent, empty or set,
\* and email absent, empty, with an empty local part, or "bob@x.com"
NameProfiles(uid) ==
    {WithOpt(WithOpt(WithOpt(WithOpt(WithOpt([user_id |-> uid],
        "nickname", n), "name", m), "username", u), "email", e), "account_name", a) :
        n \in {<<>>, <<"">>, <<"Nick">>},
        m \in {<<>>, <<"">>, <<"Name">>},
        u \in {<<>>, <<"">>, <<"User">>},
        e \in {<<>>, <<[local |-> "", rest |-> ""]>>,
                <<[local |-> "", rest |-> "@x.com"]>>,
                <<[local |-> "bob", rest |-> "@x.com"]>>},
        a \in {<<>>, <<"">>, <<"Acc">>}}

Nameless == [user_id |-> 4]

ListDirInputs ==
    {[prim |-> Ok([user_info |-> p]), sub |-> Fail] : p \in NameProfiles(1)}
    \cup {[prim |-> Fail, sub |-> Ok([type |-> "list", value |-> <<q>>])] :
             q \in NameProfiles(2)}
    \cup {[prim |-> p, sub |-> t] :
             p \in {Fail, Ok(EmptyDict), Ok([user_info |-> Profile1])},
             t \in {Fail,
                     Ok([type |-> "other", value |-> <<>>]),
                     Ok([type |-> "list", value |-> <<Profile3, Profile2>>]),
                     Ok([type |-> "list", value |-> <<Profile2, Nameless>>]),
                     Ok([type |-> "dict", value |-> EmptyDict]),
                     Ok([type |-> "dict", value |-> [sub_users |-> <<Profile2>>]]),
                     Ok([type |-> "dict", value |-> [data |-> <<Profile3>>]]),
                     Ok([type |-> "dict",
                         value |-> [users |-> <<Profile2, Profile3>>]]),
                     Ok([type |-> "dict", value |-> [msg |-> "none"]]),
                     Ok([type |-> "dict",
                         value |-> [sub_users |-> <<>>, data |-> <<Profile3>>,
                                    users |-> <<Profile2>>]]),
                     Ok([type |-> "dict",
                         value |-> [sub_users |-> <<Profile2>>,
                                    data |-> <<Profile3>>]]),
                     Ok([type |-> "dict",
                         value |-> [data |-> <<>>, users |-> <<Profile2>>]])}}

NextDir ==
    \/ \E in \in LoginInputs : async_login(in)
    \/ \E in \in ListDirInputs : async_list_all_profiles(in)

SpecDir == Init /\ [][NextDir]_vars

---------------------------------------------------------------------------
(* A sixth specification: logins over many responses                       *)

\* the code of a login response: absent, a number or a string
LoginCodes ==
    {<<>>, <<IntVal(0)>>, <<IntVal(200)>>, <<IntVal(401)>>,
     <<StrVal("0")>>, <<StrVal("200")>>, <<StrVal("500")>>}

\* token_info: absent, or with each of token and remaining_time absent or set
LoginTokenInfos ==
    {<<>>} \cup
    {<<WithOpt(WithOpt(EmptyDict, "token", t), "remaining_time", r)>> :
        t \in {<<>>, <<"abc">>, <<"xyz">>}, r \in {<<>>, <<0>>, <<3600>>}}

\* the data of a login response
LoginData ==
    {<<>>} \cup
    {<<WithOpt(WithOpt(EmptyDict, "token_info", ti), "user_info", ui)>> :
        ti \in LoginTokenInfos, ui \in {<<>>, <<Profile1>>}}

\* the times at which a login is answered
LoginTimes == {10, 20}

ManyLoginInputs ==
    {[resp |-> Fail, now |-> t] : t \in LoginTimes}
    \cup {[resp |-> Ok(WithOpt(WithOpt(EmptyDict, "code", c), "data", d)), now |-> t] :
             c \in LoginCodes, d \in LoginData, t \in LoginTimes}

NextLogin ==
    \/ \E in \in ManyLoginInputs : async_login(in)
    \/ \E resp \in CallResps : async_get_primary_user(resp)

SpecLogin == Init /\ [][NextLogin]_vars

---------------------------------------------------------------------------
(* A specification with the tasks of the gather completing one by one      *)

NextGather ==
    \/ \E in \in LoginInputs : async_login(in)
    \/ \E in \in FewDirInputs : async_fetch_all(in)
    \/ GatherStart
    \/ \E resp \in {Fail, Ok(Settings1)} : TaskDone(1, resp)
    \/ \E resp \in {Fail, Ok(Goals1)} : TaskDone(2, resp)
    \/ \E resp \in FewMeasResps : TaskDone(3, resp)
    \/ GatherJoin
    \/ \E resp \in FewMeasResps : FallbackStep(resp)
    \/ \E resp \in BindsResps : BindsStep(resp)

SpecGather == Init /\ [][NextGather]_vars

---------------------------------------------------------------------------
(* A specification of coordinator cycles against server-side datasets      *)

\* the datasets: a list of measurements, the stamps the server reports for
\* it (0: none), and whether the server answers incrementally
Servers ==
    {[list |-> l, stamp |-> u, id |-> i, incremental |-> b] :
        l \in MeasLists, u \in {0, MaxTs}, i \in {0, MaxId}, b \in BOOLEAN}

NextServed ==
    \/ \E in \in LoginInputs : async_login(in)
    \/ \E in \in DirInputs : async_update_data(in)
    \/ \E in \in {[settings |-> s, goals |-> s] : s \in {Fail, Ok(Settings1)}},
          server \in Servers : ServedProfileStep(in, server)
    \/ ServedFallbackStep
    \/ \E resp \in BindsResps : BindsStep(resp)

SpecServed == Init /\ [][NextServed]_vars

---------------------------------------------------------------------------
(* A specification of cycles over several profiles, task by task           *)

\* a directory of one profile and one of three, the one with a time stamp
\* between the others
SeqDirInputs ==
    {[prim |-> Fail, sub |-> Ok([type |-> "list", value |-> <<Profile2>>]),
      prim2 |-> Fail],
     [prim |-> Ok([user_info |-> Profile1]),
      sub |-> Ok([type |-> "list", value |-> <<Profile3, Profile2>>]),
      prim2 |-> Ok([user_info |-> Profile1])]}

NextSeq ==
    \/ \E in \in LoginInputs : async_login(in)
    \/ \E in \in SeqDirInputs : async_fetch_all(in)
    \/ GatherStart
    \/ TaskDone(1, Ok(Settings1))
    \/ \E resp \in {Fail, Ok(Goals1)} : TaskDone(2, resp)
    \/ \E resp \in MultiMeasResps : TaskDone(3, resp)
    \/ GatherJoin
    \/ \E resp \in MultiMeasResps : FallbackStep(resp)
    \/ BindsStep(Fail)

SpecSeq == Init /\ [][NextSeq]_vars

---------------------------------------------------------------------------
(* A specification of cycles in which every awaited call ends              *)

NextLive ==
    \/ \E in \in LoginInputs : async_login(in)
    \/ \E in \in MultiDirInputs : async_fetch_all(in)
    \/ \E in \in MultiFanOutInputs : ProfileStep(in)
    \/ \E resp \in MultiMeasResps : FallbackStep(resp)
    \/ \E resp \in BindsResps : BindsStep(resp)

\* every request has a total timeout (ClientTimeout(total=15)), so a cycle
\* that waits for the gather, the retry or the device binds call goes on
SpecLive ==
    /\ Init /\ [][NextLive]_vars
    /\ WF_vars(\E in \in MultiFanOutInputs : ProfileStep(in))
    /\ WF_vars(\E resp \in MultiMeasResps : FallbackStep(resp))
    /\ WF_vars(\E resp \in BindsResps : BindsStep(resp))

---------------------------------------------------------------------------
(* __init__.py: the options update, with the registries of Home Assistant  *)

\* entry.entry_id; it shares no digit with the ids of the profiles
EntryId == "e7"

\* the profiles of the account: the primary and two sub-users, the id of the
\* first a part of the id of the second; the names are in lower case and hold
\* no space, as lower().replace(' ', '_') leaves them
AccountProfiles ==
    <<[user_id |-> 1, account_name |-> "ann", is_primary |-> TRUE,
       height |-> 171, birthday |-> "1991-01-21"],
      [user_id |-> 12, account_name |-> "bob", is_primary |-> FALSE,
       height |-> 182, birthday |-> "1982-12-12"],
      [user_id |-> 2, account_name |-> "cy", is_primary |-> FALSE,
       height |-> 162, birthday |-> "1992-02-22"]>>

\* s.startswith(t)
StartsWith(s, t) == Len(s) >= Len(t) /\ SubSeq(s, 1, Len(t)) = t

\* t in s, for strings
Contains(s, t) ==
    \E i \in 1..(Len(s) - Len(t) + 1) : SubSeq(s, i, i + Len(t) - 1) = t

\* s.replace(t, "")
RECURSIVE Remove(_, _)
Remove(s, t) ==
    IF Len(s) < Len(t) \/ Len(s) = 0 THEN s
    ELSE IF SubSeq(s, 1, Len(t)) = t
         THEN Remove(SubSeq(s, Len(t) + 1, Len(s)), t)
         ELSE SubSeq(s, 1, 1) \o Remove(SubSeq(s, 2, Len(s)), t)

\* the identifier of the device of a profile: f"user_{user_id}"
DeviceIdentifier(profile) == "user_" \o StrUserId(profile)

\* the unique id of the sensor unique_key of a profile
UniqueId(profile, unique_key) ==
    LET prefix == IF profile.is_primary THEN ""
                  ELSE profile.account_name \o "_"
    IN  EntryId \o "_" \o prefix \o unique_key \o "_" \o StrUserId(profile)

\* the entities the sensor platform registers for the records of a payload,
\* each with the device its device_info names
SensorEntities(records) ==
    {[unique_id |-> UniqueId(records[i], k),
      device |-> DeviceIdentifier(records[i])] :
        i \in 1..Len(records), k \in {"account_name", "height"}}

\* the registries after the platform was set up with selection sel: when the
\* first refresh of the coordinator brought a payload, the entities of its
\* records and their devices are registered
AfterSetup(h, sel, fetched) ==
    LET records == IF fetched THEN SelectTargets(AccountProfiles, sel) ELSE <<>>
        entities == SensorEntities(records)
    IN  [h EXCEPT !.entities = @ \cup entities,
                  !.devices = @ \cup {e.device : e \in entities}]

\* the selection async_setup_entry reads from the entry
EntrySelection(h) ==
    IF h.entry_options # <<>> /\ h.entry_options[1] # <<>>
    THEN h.entry_options[1]
    ELSE h.entry_data

\* the update listener of the entry, called when the options flow has stored
\* new_selected in entry.options: it removes devices or entities and reloads
\* the entry, which sets the integration up again with a new client
async_update_options(new_selected, fetched) ==
    /\ pc = "idle"
    /\ hass.entry_data # <<>>
    /\ LET old_selected == hass.entry_data
           removed_profiles == Range(old_selected) \ Range(new_selected)
           devices_to_remove ==
               IF removed_profiles = {} THEN {}
               ELSE {d \in hass.devices :
                        /\ StartsWith(d, "user_")
                        /\ Remove(d, "user_") \in removed_profiles}
           entries_to_remove ==
               IF removed_profiles = {} \/ devices_to_remove # {} THEN {}
               ELSE {e \in hass.entities :
                        \E removed_user_id \in removed_profiles :
                            Contains(e.unique_id, removed_user_id)}
           \* the entity registry drops the entities of a removed device
           gone == entries_to_remove
                   \cup {e \in hass.entities : e.device \in devices_to_remove}
           h == [hass EXCEPT
                    !.entry_options = <<new_selected>>,
                    !.devices = @ \ devices_to_remove,
                    !.entities = @ \ gone,
                    !.update = [before |-> EntrySelection(hass),
                                after |-> new_selected,
                                devices |-> hass.devices,
                                removed_devices |-> devices_to_remove,
                                removed_entities |-> gone]]
       IN  /\ hass' = AfterSetup(h, EntrySelection(h), fetched)
           /\ selected_profiles' = EntrySelection(h)
    /\ meta' = EmptyDict
    /\ data' = <<>>
    /\ frame' = NoFrame
    /\ log' = <<>>
    /\ ret' = <<>>
    /\ last' = Outcome("async_update_options", NoError, FALSE)
    /\ UNCHANGED <<token, token_expires, user_info, pc>>

\* the selections the config flow and the options flow store: the ids of one
\* or more profiles of the account, in the order of the form
OptionSelections ==
    {<<"1">>, <<"12">>, <<"2">>, <<"1", "12">>, <<"1", "2">>, <<"12", "2">>,
     <<"1", "12", "2">>}

\* the state once the config flow has created the entry with a selection and
\* async_setup_entry has run
InitOptions ==
    /\ token = "abc"
    /\ token_expires = <<3601>>
    /\ user_info = AccountProfiles[1]
    /\ meta = EmptyDict
    /\ \E sel \in OptionSelections, fetched \in BOOLEAN :
          /\ selected_profiles = sel
          /\ hass = AfterSetup([NoHass EXCEPT !.entry_data = sel], sel, fetched)
    /\ data = <<>>
    /\ pc = "idle"
    /\ frame = NoFrame
    /\ log = <<>>
    /\ ret = <<>>
    /\ last = Outcome("async_setup_entry", NoError, FALSE)

NextOptions ==
    \E new_selected \in OptionSelections, fetched \in BOOLEAN :
        async_update_options(new_selected, fetched)

SpecOptions == InitOptions /\ [][NextOptions]_vars

---------------------------------------------------------------------------
(* sensor.py: the sensors of a profile and the values they report          *)

\* a value a sensor reports: <<>> is None
IntValue(n) == <<[int |-> n]>>
StrValue(x) == <<[str |-> x]>>

\* _format_birthday for a birthday written as YYYY-MM-DD and the date formats
\* "" (None) and "dd/MM/yyyy"
FormatBirthday(raw_birthday, date_format) ==
    IF raw_birthday = "" THEN <<>>
    ELSE LET y == SubSeq(raw_birthday, 1, 4)
             m == SubSeq(raw_birthday, 6, 7)
             d == SubSeq(raw_birthday, 9, 10)
         IN  IF date_format = "" THEN StrValue(y \o "-" \o m \o "-" \o d)
             ELSE StrValue(d \o "/" \o m \o "/" \o y)

\* the loop every native_value begins with: the position in profiles of the
\* first record of the profile of the sensor, 0 when there is none
FindProfile(profiles, profile_user_id) ==
    LET hits == {i \in 1..Len(profiles) :
                    /\ profile_user_id # ""
                    /\ StrUserId(profiles[i].user_info) = profile_user_id}
    IN  IF hits = {} THEN 0 ELSE CHOOSE i \in hits : \A j \in hits : i <= j

\* FeelfitUserSensor.native_value, for the attributes that hold a number
UserValue(payload, profile_user_id, attr_key) ==
    LET profiles == GetSeq(payload, "profiles")
        i == FindProfile(profiles, profile_user_id)
        found == IF i > 0 THEN profiles[i].user_info ELSE EmptyDict
        info == IF found = EmptyDict /\ profiles # <<>>
                     THEN profiles[1].user_info
                     ELSE found
    IN  IF info = EmptyDict \/ ~Has(info, attr_key) THEN <<>>
        ELSE IntValue(info[attr_key])

\* FeelfitBirthdaySensor.native_value
BirthdayValue(payload, profile_user_id) ==
    LET profiles == GetSeq(payload, "profiles")
        i == FindProfile(profiles, profile_user_id)
        found == IF i > 0 THEN profiles[i].user_info ELSE EmptyDict
        fallback == found = EmptyDict /\ profiles # <<>>
        info == IF fallback THEN profiles[1].user_info ELSE found
        user_settings == IF fallback THEN profiles[1].user_settings
                         ELSE IF i > 0 THEN profiles[i].user_settings
                         ELSE EmptyDict
    IN  IF info = EmptyDict THEN <<>>
        ELSE FormatBirthday(GetStr(info, "birthday"),
                            GetStr(user_settings, "date_format"))

\* FeelfitGoalSensor.native_value
GoalValue(payload, profile_user_id, goal_type) ==
    LET profiles == GetSeq(payload, "profiles")
        i == FindProfile(profiles, profile_user_id)
        found == IF i > 0 THEN GetSeq(profiles[i].goals, "goals") ELSE <<>>
        goals_list == IF found = <<>> /\ profiles # <<>>
                      THEN GetSeq(profiles[1].goals, "goals")
                      ELSE found
        hits == {j \in 1..Len(goals_list) :
                    goals_list[j].goal_type = goal_type}
    IN  IF hits = {} THEN <<>>
        ELSE IntValue(goals_list[CHOOSE j \in hits :
                                     \A k \in hits : j <= k].goal_value)

\* FeelfitMeasurementSensor.native_value, for the keys that hold a whole
\* number other than time_stamp
MeasurementValue(payload, profile_user_id, measurement_key) ==
    LET profiles == GetSeq(payload, "profiles")
        i == FindProfile(profiles, profile_user_id)
        found == IF i > 0 THEN GetOpt(profiles[i].measurements,
                                      "last_measurement")
                 ELSE <<>>
        measurement == IF found = <<>> /\ profiles # <<>>
                       THEN GetOpt(profiles[1].measurements,
                                   "last_measurement")
                       ELSE found
    IN  IF measurement = <<>> \/ ~Has(measurement[1], measurement_key)
        THEN <<>>
        ELSE IntValue(measurement[1][measurement_key])

\* native_value of a sensor
NativeValue(payload, sensor) ==
    IF sensor.kind = "user"
    THEN UserValue(payload, sensor.profile_user_id, sensor.key)
    ELSE IF sensor.kind = "birthday"
    THEN BirthdayValue(payload, sensor.profile_user_id)
    ELSE IF sensor.kind = "goal"
    THEN GoalValue(payload, sensor.profile_user_id, sensor.key)
    ELSE MeasurementValue(payload, sensor.profile_user_id, sensor.key)

\* the sensors async_setup_entry of the platform creates for one record of the
\* payload of the first refresh (of the measurement keys, weight)
ProfileSensors(profile_data) ==
    LET info == profile_data.user_info
        uid == StrUserId(info)
        goals_list == GetSeq(profile_data.goals, "goals")
    IN  (IF info # EmptyDict /\ Has(info, "height")
         THEN {[kind |-> "user", key |-> "height", profile_user_id |-> uid]}
         ELSE {})
        \cup (IF info # EmptyDict /\ Has(info, "birthday")
              THEN {[kind |-> "birthday", key |-> "birthday",
                     profile_user_id |-> uid]}
              ELSE {})
        \cup {[kind |-> "goal", key |-> goals_list[j].goal_type,
               profile_user_id |-> uid] : j \in 1..Len(goals_list)}
        \cup (IF Has(profile_data.measurements, "last_measurement")
              THEN {[kind |-> "measurement", key |-> "weight",
                     profile_user_id |-> uid]}
              ELSE {})

\* the sensors of a payload
CreatedSensors(payload) ==
    UNION {ProfileSensors(payload.profiles[i]) :
              i \in 1..Len(payload.profiles)}

\* the state of every sensor once the coordinator holds payload
SensorStates(sensors, payload) ==
    [sensor \in sensors |-> NativeValue(payload, sensor)]

\* what the three calls of the fan-out can bring for a profile: its settings,
\* its goal and its measurement, each or none of them
RecordsOf(profile) ==
    {ProfileData(profile, user_settings, goals, measurements_data) :
        user_settings \in {EmptyDict, [date_format |-> "dd/MM/yyyy"]},
        goals \in {EmptyDict,
                   [goals |-> <<[goal_type |-> "weight",
                                 goal_value |-> 50 + profile.user_id]>>]},
        measurements_data \in
            {EmptyDict,
             [measurements |-> <<[weight |-> 60 + profile.user_id,
                                  user_id |-> profile.user_id]>>,
              last_updated_at |-> 1]}}

\* the payloads of async_fetch_all for a selection: the directory is complete,
\* or holds the primary user alone when the sub-users could not be listed
SensorPayloads(sel) ==
    LET Lists(targets) ==
            IF targets = <<>> THEN {<<>>}
            ELSE IF Len(targets) = 1
            THEN {<<r>> : r \in RecordsOf(targets[1])}
            ELSE {<<r1, r2>> : r1 \in RecordsOf(targets[1]),
                               r2 \in RecordsOf(targets[2])}
    IN  {[profiles |-> l] :
            l \in Lists(SelectTargets(AccountProfiles, sel))
                  \cup Lists(SelectTargets(<<AccountProfiles[1]>>, sel))}

\* a refresh of the coordinator brings a payload, and every sensor reports
\* its native_value from it
SensorRefresh(payload) ==
    /\ pc = "idle"
    /\ hass.sensors # {}
    /\ data' = payload
    /\ hass' = [hass EXCEPT !.states = SensorStates(hass.sensors, payload)]
    /\ last' = Outcome("async_update_data", NoError, FALSE)
    /\ UNCHANGED <<token, token_expires, user_info, meta, selected_profiles,
                   pc, frame, log, ret>>

\* the state once the platform is set up: the first refresh brought a payload
\* and the sensors of its records were added
InitSensors ==
    /\ token = "abc"
    /\ token_expires = <<3601>>
    /\ user_info = AccountProfiles[1]
    /\ meta = EmptyDict
    /\ selected_profiles \in {<<"1", "12">>, <<"12", "2">>, <<"12">>}
    /\ data \in SensorPayloads(selected_profiles)
    /\ hass = [NoHass EXCEPT
                  !.entry_data = selected_profiles,
                  !.sensors = CreatedSensors(data),
                  !.states = SensorStates(CreatedSensors(data), data)]
    /\ pc = "idle"
    /\ frame = NoFrame
    /\ log = <<>>
    /\ ret = <<>>
    /\ last = Outcome("async_setup_entry", NoError, FALSE)

NextSensors ==
    \E payload \in SensorPayloads(selected_profiles) : SensorRefresh(payload)

SpecSensors == InitSensors /\ [][NextSensors]_vars

---------------------------------------------------------------------------
(* A specification of _get over the answers HTTP can bring                 *)

\* the decoded bodies: an envelope with data of every kind, a mapping without
\* data, a list, and null (an empty body decodes to None)
HttpBodies ==
    {JDict([code |-> JNum(0), data |-> d]) :
        d \in {JNull, JBool(FALSE), JNum(0), JNum(7), JStr(""), JStr("x"),
               JList(<<>>), JList(<<JNum(1)>>), JDict(EmptyDict),
               JDict([unit |-> JStr("kg")])}}
    \cup {JDict(EmptyDict), JDict([unit |-> JStr("kg")]),
          JList(<<>>), JList(<<JNum(1)>>), JNull}

HttpStatuses == {200, 201, 204, 301, 401, 404, 500}

\* the answers to one GET: the transport raises, or a status arrives with a
\* body that can be decoded or cannot
HttpAnswers ==
    {[raises |-> TRUE, status |-> 0, decodable |-> FALSE, body |-> JNull]}
    \cup {[raises |-> FALSE, status |-> st, decodable |-> FALSE, body |-> JNull] :
             st \in HttpStatuses}
    \cup {[raises |-> FALSE, status |-> st, decodable |-> TRUE, body |-> b] :
             st \in HttpStatuses, b \in HttpBodies}

NextGet ==
    \/ \E in \in LoginInputs : async_login(in)
    \/ \E h \in HttpAnswers :
          GetCall("async_get_user_settings", Req(PATH_USER_SETTINGS, EmptyDict), h)
    \/ \E h \in HttpAnswers :
          GetCall("async_list_goals", Req(PATH_GOALS, [user_id |-> "1"]), h)

SpecGet == Init /\ [][NextGet]_vars

---------------------------------------------------------------------------
(* Properties: what they read *)

\* the stored value of cursor field k for profile p, 0 when there is none
Stored(m, p, k) == IF p \in DOMAIN m /\ k \in DOMAIN m[p] THEN m[p][k] ELSE 0

CursorFields == {"last_updated_at", "last_measurement_id"}

\* a loop iteration has run to its end and the frame holds its locals
IterDone == pc \in {"loop", "idle"} /\ frame.done >= 1

\* a loop iteration is past its fan-out
IterSeen == pc = "fallback" \/ IterDone

\* the profile of that iteration
IterProfile ==
    frame.profiles_to_fetch[IF pc = "fallback" THEN frame.done + 1 ELSE frame.done]

IterUid == StrUserId(IterProfile)

\* the body of the initial measurements response, empty when the call failed
InitialBody == IF frame.results[3].ok THEN frame.results[3].data ELSE EmptyDict

\* a fallback retry was issued / has been answered successfully
RetryIssued == pc = "fallback" \/ frame.fallback # <<>>
RetryOk == frame.fallback # <<>> /\ frame.fallback[1].ok

\* the body of the final measurements response of the iteration
FinalBody == IF RetryOk THEN frame.fallback[1].data ELSE InitialBody

\* the measurements requests issued for profile uid in the running cycle
MeasRequests(uid) ==
    SelectSeq(log, LAMBDA r : r.path = PATH_MEASUREMENTS /\ r.user_id = uid)

\* the non-zero values of field k reported to the iteration
Reported(k) ==
    ({GetInt(InitialBody, k)} \cup
     (IF RetryOk THEN {GetInt(frame.fallback[1].data, k)} ELSE {})) \ {0}

\* the time stamp the iteration's profile carries, 0 when it carries none
IterTs == GetInt(IterProfile, "time_stamp")

\* the stored last_updated_at of the iteration's profile when the iteration began
IterStored == Stored(frame.meta0, IterUid, "last_updated_at")

\* the measurement sequence of the initial result, empty when the call failed
InitialList == GetSeq(InitialBody, "measurements")

---------------------------------------------------------------------------
(* Properties *)

\* C1: a cursor field that is stored and non-zero is never cleared, zeroed
\* or dropped with its entry, and a stored field changes only in the step
\* that ends an iteration for that profile, to a non-zero value that a
\* measurements response of that iteration reported: a response whose field
\* is absent or zero leaves it as it was.
C1_CursorNeverCleared ==
    [][\A p \in DOMAIN meta \cup DOMAIN meta' : \A k \in CursorFields :
          /\ p \in DOMAIN meta => p \in DOMAIN meta'
          /\ Stored(meta, p, k) # 0 => Stored(meta', p, k) # 0
          /\ Stored(meta', p, k) # Stored(meta, p, k) =>
                /\ frame'.done = frame.done + 1
                /\ IterUid' = p
                /\ Stored(meta', p, k) \in Reported(k)']_vars

\* C1 witness: an iteration of a profile with a stored last_updated_at ended
\* on a successful response that reports none, and the stored value stands
C1_Witness ==
    /\ IterDone
    /\ IterStored # 0
    /\ frame.results[3].ok
    /\ Reported("last_updated_at") = {}
    /\ Stored(meta, IterUid, "last_updated_at") = IterStored

\* C2 as stated: the stored last_updated_at never decreases
C2_NeverDecreases ==
    [][\A p \in DOMAIN meta :
          Stored(meta', p, "last_updated_at") >= Stored(meta, p, "last_updated_at")]_vars

\* C2 amended: the stored last_updated_at of a profile does not decrease in
\* any step, except in the step that ends an iteration for that profile whose
\* final measurements response reports a smaller non-zero last_updated_at;
\* the stored value then becomes the reported one.
C2_DecreasesOnlyToReported ==
    [][\A p \in DOMAIN meta \cup DOMAIN meta' :
          LET old == Stored(meta, p, "last_updated_at")
              new == Stored(meta', p, "last_updated_at")
          IN  IF /\ frame'.done = frame.done + 1
                 /\ IterUid' = p
                 /\ GetInt(FinalBody', "last_updated_at") # 0
                 /\ GetInt(FinalBody', "last_updated_at") < old
              THEN new = GetInt(FinalBody', "last_updated_at")
              ELSE new >= old]_vars

\* C2 witness: an iteration ended with a stored value below the one it began with
C2_Witness ==
    /\ IterDone
    /\ Stored(meta, IterUid, "last_updated_at") < IterStored
    /\ Stored(meta, IterUid, "last_updated_at") = GetInt(FinalBody, "last_updated_at")

\* the case of C3: a stored cursor C # 0, a profile time stamp P # C, and an
\* initial measurements call that returned an empty sequence
C3_Case ==
    /\ IterSeen
    /\ IterStored # 0
    /\ IterTs # 0
    /\ IterTs # IterStored
    /\ frame.results[3].ok
    /\ InitialList = <<>>

\* C3: in that case exactly two measurements requests are issued for the
\* profile in the cycle, the second with last_updated_at=0 and
\* last_measurement_id=0; and no iteration issues a third one, whatever the
\* retry returns.
C3_RetryExactlyOnce ==
    IterSeen =>
        /\ Len(MeasRequests(IterUid)) <= 2
        /\ C3_Case =>
              /\ Len(MeasRequests(IterUid)) = 2
              /\ MeasRequests(IterUid)[2].last_updated_at = "0"
              /\ MeasRequests(IterUid)[2].last_measurement_id = "0"

\* C3 witness: the case, with a retry that failed and the iteration ended
C3_Witness ==
    /\ C3_Case
    /\ IterDone
    /\ frame.fallback = <<Fail>>
    /\ Len(MeasRequests(IterUid)) = 2

\* C4 as stated: the retry is issued exactly when the initial result is
\* empty, a non-zero profile time stamp is known and it differs from the
\* last_updated_at that the initial request carried
C4_RetryIffDiffersFromRequest ==
    IterSeen =>
        (Len(MeasRequests(IterUid)) > 1 <=>
            /\ InitialList = <<>>
            /\ IterTs # 0
            /\ ToStr(IterTs) # MeasRequests(IterUid)[1].last_updated_at)

\* C4 amended: the retry is issued exactly when the initial result is empty,
\* a non-zero profile time stamp is known and it differs from the stored
\* cursor's last_updated_at, taken as 0 when none is stored.
C4_RetryIffDiffersFromStored ==
    IterSeen =>
        (Len(MeasRequests(IterUid)) > 1 <=>
            /\ InitialList = <<>>
            /\ IterTs # 0
            /\ IterTs # IterStored)

\* C4 witness: a retry for a profile without a stored cursor, whose initial
\* request carried the profile's own time stamp
C4_Witness ==
    /\ IterSeen
    /\ IterStored = 0
    /\ IterTs # 0
    /\ MeasRequests(IterUid)[1].last_updated_at = ToStr(IterTs)
    /\ Len(MeasRequests(IterUid)) = 2

\* C5: the initial measurements request carries the stored last_updated_at
\* when it is > 0, else the profile's time stamp when it is > 0, else 0; and
\* the stored last_measurement_id, or 0 when none is stored.
C5_RequestCursor ==
    IterSeen =>
        /\ MeasRequests(IterUid)[1].last_updated_at =
              ToStr(IF IterStored > 0 THEN IterStored
                    ELSE IF IterTs > 0 THEN IterTs ELSE 0)
        /\ MeasRequests(IterUid)[1].last_measurement_id =
              ToStr(Stored(frame.meta0, IterUid, "last_measurement_id"))

\* C5 witness: a stored cursor and a different profile time stamp, and the
\* request carries the stored pair
C5_Witness ==
    /\ IterSeen
    /\ IterStored > 0
    /\ IterTs > 0
    /\ IterTs # IterStored
    /\ Stored(frame.meta0, IterUid, "last_measurement_id") > 0
    /\ MeasRequests(IterUid)[1].last_updated_at = ToStr(IterStored)

\* the profile record the iteration appended
IterRecord == frame.all_profiles_data[frame.done]

\* C6 as stated: the record of the iteration holds, for each of the three
\* sub-requests, the returned data when it succeeded and an empty result when
\* it failed; the record is appended and the run does not raise
C6_RecordFromFanOut ==
    IterDone =>
        /\ Len(frame.all_profiles_data) = frame.done
        /\ IterRecord.user_info = IterProfile
        /\ IterRecord.user_settings =
              (IF frame.results[1].ok THEN frame.results[1].data ELSE EmptyDict)
        /\ IterRecord.goals =
              (IF frame.results[2].ok THEN frame.results[2].data ELSE EmptyDict)
        /\ IterRecord.measurements.measurements = InitialList
        /\ GetOpt(IterRecord.measurements, "last_updated_at") =
              GetOpt(InitialBody, "last_updated_at")
        /\ pc = "idle" => last = Outcome("async_fetch_all", NoError, FALSE)

\* C6 amended: the same for user settings and goals; the measurements of the
\* record are those of the initial response (empty when it failed) unless a
\* fallback retry was issued and succeeded, and then those of the retry.
C6_RecordFromFanOutOrRetry ==
    IterDone =>
        /\ Len(frame.all_profiles_data) = frame.done
        /\ IterRecord.user_info = IterProfile
        /\ IterRecord.user_settings =
              (IF frame.results[1].ok THEN frame.results[1].data ELSE EmptyDict)
        /\ IterRecord.goals =
              (IF frame.results[2].ok THEN frame.results[2].data ELSE EmptyDict)
        /\ IterRecord.measurements.measurements =
              (IF RetryOk THEN GetSeq(frame.fallback[1].data, "measurements")
               ELSE InitialList)
        /\ GetOpt(IterRecord.measurements, "last_updated_at") =
              (IF RetryOk THEN GetOpt(frame.fallback[1].data, "last_updated_at")
               ELSE GetOpt(InitialBody, "last_updated_at"))
        /\ pc = "idle" => last = Outcome("async_fetch_all", NoError, FALSE)

\* C6 witness: only the goals call failed, and the record of the returned
\* payload holds the settings and the measurements that were returned
C6_Witness ==
    /\ IterDone
    /\ pc = "idle"
    /\ frame.results[1].ok /\ ~frame.results[2].ok /\ frame.results[3].ok
    /\ ret.profiles[frame.done].user_settings = Settings1
    /\ ret.profiles[frame.done].goals = EmptyDict
    /\ ret.profiles[frame.done].measurements.measurements = InitialList
    /\ InitialList # <<>>

\* C7: when an iteration has ended, each stored cursor field of its profile
\* is the value the final measurements response reports when that is
\* non-zero, and the value stored before the iteration otherwise; the final
\* response is the retry's when a retry was issued and succeeded, and the
\* initial one otherwise.
C7_CursorUpdate ==
    IterDone =>
        \A k \in CursorFields :
            Stored(meta, IterUid, k) =
                IF GetInt(FinalBody, k) # 0 THEN GetInt(FinalBody, k)
                ELSE Stored(frame.meta0, IterUid, k)

\* C7 witness: a successful retry reports no last_updated_at and a new
\* last_measurement_id: the first is kept, the second is stored
C7_Witness ==
    /\ IterDone
    /\ RetryOk
    /\ IterStored # 0
    /\ GetInt(FinalBody, "last_updated_at") = 0
    /\ GetInt(FinalBody, "last_measurement_id") # 0
    /\ Stored(frame.meta0, IterUid, "last_measurement_id") = 0
    /\ Stored(meta, IterUid, "last_updated_at") = IterStored
    /\ Stored(meta, IterUid, "last_measurement_id") =
          GetInt(FinalBody, "last_measurement_id")

\* the entry points that need a token
AuthCalls ==
    {"async_get_primary_user", "async_get_user_settings", "async_list_goals",
     "async_list_device_binds", "async_get_last_measurements",
     "async_list_all_profiles", "async_fetch_all"}

\* C8: a call of an authenticated entry point made without a token raises
\* the not-authenticated error, issues no request, starts no fetch cycle and
\* leaves the cursor map and the session fields as they were.
C8_NoTokenRaisesFirst ==
    [][(token = "" /\ last'.op \in AuthCalls) =>
          /\ last'.raised = NotAuthenticated
          /\ log' = <<>>
          /\ pc' = "idle"
          /\ UNCHANGED <<meta, token, token_expires, user_info>>]_vars

\* C8 witness: async_fetch_all was called by the coordinator without a token
C8_Witness ==
    /\ token = ""
    /\ last = Outcome("async_fetch_all", NotAuthenticated, TRUE)
    /\ log = <<>>

\* a cycle run by the coordinator has ended in which every network call failed
C9_AllCallsFailed ==
    /\ pc = "idle"
    /\ token # ""
    /\ last.op = "async_fetch_all"
    /\ frame.caller = "coordinator"
    /\ frame.binds = <<Fail>>
    /\ ~frame.dir_ok

\* C9 as stated: such a cycle ends in an error (UpdateFailed) and the
\* coordinator's data is not the payload of that cycle
C9_FailedCycleRaises ==
    C9_AllCallsFailed =>
        /\ last.raised # NoError
        /\ last.update_failed
        /\ data # ret

\* C10: the record of an iteration holds the measurement sequence of the
\* final measurements response unchanged, its last_measurement is the first
\* element of that sequence, absent exactly when the sequence is empty; the
\* returned payload holds these records.
C10_LastMeasurementIsFirst ==
    IterDone =>
        LET snap == IterRecord.measurements
            list == GetSeq(FinalBody, "measurements")
        IN  /\ snap.measurements = list
            /\ Has(snap, "last_measurement") <=> list # <<>>
            /\ list # <<>> => snap.last_measurement = list[1]
            /\ pc = "idle" => ret.profiles = frame.all_profiles_data

\* C10 witness: a returned record whose sequence begins with an element that
\* is not its newest, and last_measurement is that first element
C10_Witness ==
    /\ IterDone
    /\ pc = "idle"
    /\ Len(GetSeq(FinalBody, "measurements")) > 1
    /\ FinalBody.measurements[1] < FinalBody.measurements[2]
    /\ ret.profiles[frame.done].measurements.last_measurement =
          FinalBody.measurements[1]

\* an async_fetch_all has returned its payload
Returned == pc = "idle" /\ last = Outcome("async_fetch_all", NoError, FALSE)

\* the positions of the directory that the selection sel asks for
Wanted(dir, sel) ==
    {i \in 1..Len(dir) : sel = <<>> \/ StrUserId(dir[i]) \in Range(sel)}

\* the k-th smallest element of the set of positions idx
Kth(idx, k) == CHOOSE i \in idx : Cardinality({j \in idx : j <= i}) = k

\* C11: the payload holds one record for each directory profile whose
\* str(user_id) is selected (for every directory profile when nothing is
\* selected), in directory order; a selected id that is in no directory
\* profile adds no record and raises nothing; all_profiles is the directory.
C11_TargetSelection ==
    Returned =>
        LET dir == frame.all_profiles
            idx == Wanted(dir, selected_profiles)
        IN  /\ Len(ret.profiles) = Cardinality(idx)
            /\ \A k \in 1..Len(ret.profiles) :
                  ret.profiles[k].user_info = dir[Kth(idx, k)]
            /\ ret.all_profiles = dir

\* C11 witness: the selection names the third and the first profile of a
\* three-profile directory; the payload holds the first, then the third
C11_Witness ==
    /\ Returned
    /\ selected_profiles = <<"3", "1">>
    /\ Len(ret.all_profiles) = 3
    /\ Len(ret.profiles) = 2
    /\ StrUserId(ret.profiles[1].user_info) = "1"
    /\ StrUserId(ret.profiles[2].user_info) = "3"

\* the device binds requests of the running or last operation
BindsRequests == SelectSeq(log, LAMBDA r : r.path = PATH_DEVICE_BINDS)

\* C12: a running cycle has issued no device binds request; a cycle that has
\* returned has issued exactly one, as its last request, with every target
\* profile processed before it; when that request failed the payload holds
\* empty device_binds and device_models and nothing was raised.
C12_BindsOncePerCycle ==
    /\ pc # "idle" => Len(BindsRequests) = 0
    /\ Returned =>
          /\ Len(BindsRequests) = 1
          /\ log[Len(log)].path = PATH_DEVICE_BINDS
          /\ frame.done = Len(frame.profiles_to_fetch)
          /\ Len(ret.profiles) = Len(frame.profiles_to_fetch)
          /\ \A j \in 1..Len(frame.profiles_to_fetch) :
                Len(MeasRequests(StrUserId(frame.profiles_to_fetch[j]))) >= 1
          /\ ~frame.binds[1].ok =>
                ret.device_binds = [device_binds |-> <<>>, device_models |-> <<>>]

\* C12 witness: a cycle over three profiles whose device binds request failed
C12_Witness ==
    /\ Returned
    /\ Len(frame.profiles_to_fetch) = 3
    /\ Len(BindsRequests) = 1
    /\ frame.binds = <<Fail>>
    /\ ret.device_binds.device_binds = <<>>

\* the device bindings and device models of the answered device binds call
SeenBinds == GetSeq(frame.binds[1].data, "device_binds")
SeenModels == GetSeq(frame.binds[1].data, "device_models")

\* the positions of the models with the pair of binding d, with its scale name
SamePair(d) ==
    {j \in 1..Len(SeenModels) : ModelKey(SeenModels[j]) = ModelKey(d)}
SameScale(d) ==
    {j \in 1..Len(SeenModels) :
        /\ Has(d, "scale_name") /\ Has(SeenModels[j], "scale_name")
        /\ SeenModels[j].scale_name = d.scale_name}

\* the smallest position of a non-empty set of positions
Least(idx) == CHOOSE j \in idx : \A k \in idx : j <= k

\* the merged binding at position i of the payload
Merged(i) == ret.device_binds.device_binds[i]

\* C13: a device binding whose (scale_name, internal_model) pair is that of
\* some device model carries as model_info the first model, in device_models
\* order, with that pair, whatever other models share its scale name.
C13_CompositeJoinFirstWins ==
    (Returned /\ frame.binds[1].ok) =>
        /\ Len(ret.device_binds.device_binds) = Len(SeenBinds)
        /\ ret.device_binds.device_models = SeenModels
        /\ \A i \in 1..Len(SeenBinds) :
              SamePair(SeenBinds[i]) # {} =>
                  /\ Has(Merged(i), "model_info")
                  /\ Merged(i).model_info = SeenModels[Least(SamePair(SeenBinds[i]))]

\* C13 witness: binding (A, m1), models (A, m2, Y) then (A, m1, X): the
\* binding carries the second model and brand X
C13_Witness ==
    /\ Returned
    /\ frame.binds[1].ok
    /\ Len(SeenBinds) = 1 /\ Len(SeenModels) = 2
    /\ ModelKey(SeenBinds[1]) = <<<<"A">>, <<"m1">>>>
    /\ ModelKey(SeenModels[1]) = <<<<"A">>, <<"m2">>>>
    /\ ModelKey(SeenModels[2]) = <<<<"A">>, <<"m1">>>>
    /\ GetStr(GetSeq(SeenModels[1], "brand_info"), "brand_name") = "Y"
    /\ Merged(1).model_info = SeenModels[2]
    /\ GetStr(Merged(1), "brand_name") = "X"

\* C14: a device binding whose pair is that of no model and whose scale name
\* is that of some model carries as model_info the first model, in
\* device_models order, with that scale name; a binding that matches neither
\* way is returned as it came, without model_info and brand_name; brand_name
\* is attached exactly when the attached model's brand_info holds a non-empty
\* brand_name, and is that name.
C14_FallbackJoin ==
    (Returned /\ frame.binds[1].ok) =>
        \A i \in 1..Len(SeenBinds) :
            LET d == SeenBinds[i]
            IN  /\ (SamePair(d) = {} /\ SameScale(d) # {}) =>
                      /\ Has(Merged(i), "model_info")
                      /\ Merged(i).model_info = SeenModels[Least(SameScale(d))]
                /\ (SamePair(d) = {} /\ SameScale(d) = {}) => Merged(i) = d
                /\ Has(Merged(i), "brand_name") <=>
                      /\ Has(Merged(i), "model_info")
                      /\ GetStr(GetSeq(Merged(i).model_info, "brand_info"),
                                "brand_name") # ""
                /\ Has(Merged(i), "brand_name") =>
                      Merged(i).brand_name =
                          Merged(i).model_info.brand_info.brand_name

\* C14 witness: binding (A, zz), models (A, m1, X) then (A, m2, Y): no pair
\* matches, the binding carries the first model of scale A and brand X
C14_Witness ==
    /\ Returned
    /\ frame.binds[1].ok
    /\ Len(SeenBinds) = 1 /\ Len(SeenModels) = 2
    /\ ModelKey(SeenBinds[1]) = <<<<"A">>, <<"zz">>>>
    /\ SamePair(SeenBinds[1]) = {}
    /\ SameScale(SeenBinds[1]) = {1, 2}
    /\ GetStr(GetSeq(SeenModels[2], "brand_info"), "brand_name") = "Y"
    /\ Merged(1).model_info = SeenModels[1]
    /\ GetStr(Merged(1), "brand_name") = "X"

\* async_list_all_profiles was called with a token
ListCalled == last.op = "async_list_all_profiles" /\ token # ""

\* async_list_all_profiles has returned its list
ListReturned == last = Outcome("async_list_all_profiles", NoError, FALSE)

\* the two responses that call received
SeenPrim == frame.seen[1].prim
SeenSub == frame.seen[1].sub

\* the profiles as the server sent them: the primary user of a successful
\* primary-user response that holds one, the sub-users of a successful
\* sub-user response
SentPrimary ==
    IF SeenPrim.ok /\ GetSeq(SeenPrim.data, "user_info") # EmptyDict
    THEN <<SeenPrim.data.user_info>>
    ELSE <<>>
SentSubUsers ==
    IF ~SeenSub.ok THEN <<>>
    ELSE IF SeenSub.data.type = "list" THEN SeenSub.data.value
    ELSE IF SeenSub.data.type # "dict" THEN <<>>
    ELSE IF GetSeq(SeenSub.data.value, "sub_users") # <<>>
         THEN SeenSub.data.value.sub_users
    ELSE IF GetSeq(SeenSub.data.value, "data") # <<>> THEN SeenSub.data.value.data
    ELSE GetSeq(SeenSub.data.value, "users")
Sent == SentPrimary \o SentSubUsers

\* the placeholder of the profile at position i of the returned list
Placeholder(i) ==
    IF SentPrimary # <<>> /\ i = 1 THEN "Profilo Primario"
    ELSE "Profilo " \o ToStr(i - Len(SentPrimary) + 1)

\* the first non-empty value among nickname, name, username, the local part
\* of email and the placeholder
FirstNonEmptyName(p, placeholder) ==
    IF GetStr(p, "nickname") # "" THEN p.nickname
    ELSE IF GetStr(p, "name") # "" THEN p.name
    ELSE IF GetStr(p, "username") # "" THEN p.username
    ELSE IF Has(p, "email") /\ p.email.local # "" THEN p.email.local
    ELSE placeholder

\* C15 as stated: a returned profile that arrived without account_name has
\* as account_name the first non-empty value among nickname, name, username,
\* the local part of email and its positional placeholder
C15_DerivationOrder ==
    ListReturned =>
        /\ Len(ret) = Len(Sent)
        /\ \A i \in 1..Len(ret) :
              GetStr(Sent[i], "account_name") = "" =>
                  /\ Has(ret[i], "account_name")
                  /\ ret[i].account_name = FirstNonEmptyName(Sent[i], Placeholder(i))

\* C16 as stated: every returned profile has a non-empty account_name
C16_AccountNameNonEmpty ==
    ListReturned =>
        \A i \in 1..Len(ret) : GetStr(ret[i], "account_name") # ""

\* a profile without the two fields the directory sets
Strip(p) == [k \in DOMAIN p \ {"is_primary", "account_name"} |-> p[k]]

\* the returned list is the primary profile, when one was sent, followed by
\* the sub-users in the order sent; the sub-users are not primary
PrimaryThenSubUsers ==
    /\ Len(ret) = Len(Sent)
    /\ \A i \in 1..Len(ret) :
          /\ Strip(ret[i]) = Strip(Sent[i])
          /\ Has(ret[i], "is_primary")
          /\ i > Len(SentPrimary) => ret[i].is_primary = FALSE

\* C17 as stated: primary first, then the sub-users in server order, none of
\* them primary; when the primary-user request succeeded exactly the first
\* returned profile is primary
C17_PrimaryFirst ==
    ListReturned =>
        /\ PrimaryThenSubUsers
        /\ SeenPrim.ok =>
              /\ Len(ret) >= 1
              /\ \A i \in 1..Len(ret) : ret[i].is_primary = (i = 1)

\* C17 amended: the same, where exactly the first returned profile is primary
\* when the primary-user request succeeded and its response holds a non-empty
\* user_info; when it succeeded without one, no returned profile is primary.
C17_PrimaryFirstWhenSent ==
    ListReturned =>
        /\ PrimaryThenSubUsers
        /\ (SeenPrim.ok /\ GetSeq(SeenPrim.data, "user_info") # EmptyDict) =>
              /\ Len(ret) >= 1
              /\ \A i \in 1..Len(ret) : ret[i].is_primary = (i = 1)
        /\ (SeenPrim.ok /\ GetSeq(SeenPrim.data, "user_info") = EmptyDict) =>
              \A i \in 1..Len(ret) : ret[i].is_primary = FALSE

\* C17 witness: a primary profile and two sub-users sent as 3, 2 are returned
\* as 1, 3, 2 and only the first is primary
C17_Witness ==
    /\ ListReturned
    /\ SeenPrim.ok
    /\ Len(ret) = 3
    /\ <<StrUserId(ret[1]), StrUserId(ret[2]), StrUserId(ret[3])>> = <<"1", "3", "2">>
    /\ <<ret[1].is_primary, ret[2].is_primary, ret[3].is_primary>> =
          <<TRUE, FALSE, FALSE>>

\* C18: a call of async_list_all_profiles made with a token raises nothing;
\* when the primary-user request failed it returns the sub-users sent, when
\* the sub-user request failed it returns the primary profile sent, and when
\* both failed it returns the empty list.
C18_DirectoryNonFatal ==
    ListCalled =>
        /\ last.raised = NoError
        /\ log = DirectoryRequests
        /\ Len(ret) = Len(Sent)
        /\ \A i \in 1..Len(ret) : Strip(ret[i]) = Strip(Sent[i])
        /\ ~SeenPrim.ok => Len(ret) = Len(SentSubUsers)
        /\ ~SeenSub.ok => Len(ret) = Len(SentPrimary)
        /\ (~SeenPrim.ok /\ ~SeenSub.ok) => ret = <<>>

\* C18 witness: the primary-user request failed and the two sub-users sent
\* were returned
C18_Witness ==
    /\ ListReturned
    /\ ~SeenPrim.ok
    /\ SeenSub.ok
    /\ Len(SentSubUsers) = 2
    /\ Len(ret) = 2
    /\ StrUserId(ret[1]) = StrUserId(SentSubUsers[1])
    /\ StrUserId(ret[2]) = StrUserId(SentSubUsers[2])

\* the step is a call of async_login; SeenLogin is the answer it received
LoginStep == last'.op = "async_login" /\ frame'.seen # <<>>
SeenLogin == frame.seen[1]

\* the login response was received and its code, as text, is "200" or "0"
Accepted(in) == in.resp.ok /\ PyStr(in.resp.data, "code") \in {"200", "0"}
Refused(in) == in.resp.ok /\ PyStr(in.resp.data, "code") \notin {"200", "0"}

\* C19: a login whose response carries a code that is neither "200" nor "0"
\* raises the login error with the server's payload and leaves token,
\* token_expires and user_info as they were; a login whose response was
\* received with code "200" or "0" raises nothing.
C19_LoginResultCode ==
    [][LoginStep =>
          /\ Refused(SeenLogin') =>
                /\ last'.raised = LoginFailed
                /\ ret' = SeenLogin'.resp.data
                /\ UNCHANGED <<token, token_expires, user_info>>
          /\ Accepted(SeenLogin') => last'.raised = NoError]_vars

\* C19 witness: a session with a token, an expiry and a user_info has been
\* refused a login with the numeric code 401 and holds them still
C19_Witness ==
    /\ last = Outcome("async_login", LoginFailed, FALSE)
    /\ PyStr(SeenLogin.resp.data, "code") = "401"
    /\ ret = SeenLogin.resp.data
    /\ token = "abc"
    /\ token_expires # <<>>
    /\ user_info = Profile1

\* C20: a login that is accepted with a token t and a remaining_time r in its
\* token_info sets the session token to t and token_expires to the time of
\* the login plus r.
C20_LoginTokenExpiry ==
    [][LoginStep =>
          LET data_ == GetSeq(SeenLogin'.resp.data, "data")
              token_info == GetSeq(data_, "token_info")
          IN  (/\ Accepted(SeenLogin')
               /\ GetStr(token_info, "token") # ""
               /\ Has(token_info, "remaining_time")) =>
                  /\ token' = token_info.token
                  /\ token_expires' = <<SeenLogin'.now + token_info.remaining_time>>]_vars

\* C20 witness: code "0", token "abc" and remaining_time 3600 at time 20 give
\* token "abc" and token_expires 3620
C20_Witness ==
    /\ last = Outcome("async_login", NoError, FALSE)
    /\ SeenLogin.now = 20
    /\ GetOpt(SeenLogin.resp.data, "code") = <<StrVal("0")>>
    /\ GetSeq(GetSeq(SeenLogin.resp.data, "data"), "token_info") =
          [token |-> "abc", remaining_time |-> 3600]
    /\ token = "abc"
    /\ token_expires = <<3620>>

\* C21 as stated: after an async_login that has returned without an error
\* the session holds a non-empty token
C21_TokenAfterLogin ==
    last = Outcome("async_login", NoError, FALSE) => token # ""

\* C28 as stated: a login whose response carries no remaining_time leaves
\* token_expires unset
C28_ExpiryUnknownWithoutRemaining ==
    [][LoginStep =>
          LET data_ == GetSeq(SeenLogin'.resp.data, "data")
              token_info == GetSeq(data_, "token_info")
          IN  (Accepted(SeenLogin') /\ ~Has(token_info, "remaining_time")) =>
                  token_expires' = <<>>]_vars

\* C23 as stated: a step that is not a call of async_login changes none of
\* token, token_expires and user_info
C23_OnlyLoginMutatesSession ==
    [][~LoginStep => UNCHANGED <<token, token_expires, user_info>>]_vars

\* C23 amended: a step that is not a call of async_login changes neither
\* token nor token_expires, and changes user_info only as the start of an
\* async_fetch_all whose primary-user response was received with a non-empty
\* user_info, which then becomes the session's user_info.
C23_OnlyLoginAndFetchStart ==
    [][~LoginStep =>
          /\ UNCHANGED <<token, token_expires>>
          /\ user_info' # user_info =>
                /\ pc = "idle" /\ pc' = "loop"
                /\ token # ""
                /\ Has(frame'.primary_data, "user_info")
                /\ frame'.primary_data.user_info # EmptyDict
                /\ user_info' = frame'.primary_data.user_info]_vars

\* C23 witness: an async_fetch_all has begun and the session's user_info is
\* the one of its primary-user response, which no login response carried
C23_Witness ==
    /\ pc = "loop"
    /\ token # ""
    /\ Has(frame.primary_data, "user_info")
    /\ user_info = frame.primary_data.user_info
    /\ Has(user_info, "time_stamp")

HeldLast(uid) ==
    /\ data # <<>>
    /\ \E i \in 1..Len(data.profiles) :
          /\ StrUserId(data.profiles[i].user_info) = uid
          /\ Has(data.profiles[i].measurements, "last_measurement")

\* C25: the measurement snapshot of an iteration holds nothing but what the
\* final measurements response of this cycle holds: its sequence and its
\* last_measurement come from that response, and when the response is empty
\* the sequence is empty and there is no last_measurement, whatever an
\* earlier cycle returned for the profile
C25_SnapshotRebuilt ==
    IterDone =>
        LET snap == IterRecord.measurements
            list == GetSeq(FinalBody, "measurements")
        IN  /\ DOMAIN snap \subseteq
                  {"measurements", "last_measurement", "last_updated_at"}
            /\ Range(snap.measurements) \subseteq Range(list)
            /\ Has(snap, "last_measurement") =>
                  snap.last_measurement \in Range(list)
            /\ Has(snap, "last_updated_at") =>
                  /\ Has(FinalBody, "last_updated_at")
                  /\ snap.last_updated_at = FinalBody.last_updated_at
            /\ list = <<>> =>
                  snap.measurements = <<>> /\ ~Has(snap, "last_measurement")

\* C25 witness: the coordinator holds a payload with a last_measurement for
\* the profile, and the record of the next cycle, whose final response was
\* empty, has an empty sequence and no last_measurement
C25_Witness ==
    /\ IterDone
    /\ frame.caller = "coordinator"
    /\ HeldLast(IterUid)
    /\ GetSeq(FinalBody, "measurements") = <<>>
    /\ IterRecord.measurements.measurements = <<>>
    /\ ~Has(IterRecord.measurements, "last_measurement")

\* the ids of the profiles the running or last async_fetch_all targets
Targets ==
    {StrUserId(frame.profiles_to_fetch[j]) :
        j \in 1..Len(frame.profiles_to_fetch)}

\* the ids of the targets whose iteration has been completed
TargetsDone ==
    {StrUserId(frame.profiles_to_fetch[j]) : j \in 1..frame.done}

\* C27: while an async_fetch_all runs and when it has returned, the cursor
\* entry of every profile id that is no target of the cycle is as it was
\* when the cycle began, existence included; an entry that did not exist
\* when the cycle began exists only for a target whose iteration is done;
\* every per-profile request of the cycle carries the id of a target
C27_CursorIsolation ==
    (pc # "idle" \/ Returned) =>
        /\ \A uid \in (DOMAIN meta \cup DOMAIN frame.start) \ Targets :
              /\ uid \in DOMAIN meta /\ uid \in DOMAIN frame.start
              /\ meta[uid] = frame.start[uid]
        /\ DOMAIN frame.start \subseteq DOMAIN meta
        /\ (DOMAIN meta) \ (DOMAIN frame.start) \subseteq TargetsDone
        /\ \A i \in 1..Len(log) :
              Has(log[i], "user_id") => log[i].user_id \in Targets

\* C27 witness: a returned cycle that targeted profile 2 alone and created
\* its entry, while the entry of profile 1, made by an earlier cycle, is kept
C27_Witness ==
    /\ Returned
    /\ Targets = {"2"}
    /\ "2" \in DOMAIN meta /\ "2" \notin DOMAIN frame.start
    /\ "1" \in DOMAIN frame.start
    /\ "1" \in DOMAIN meta
    /\ meta["1"] = frame.start["1"]
    /\ Has(meta["1"], "last_updated_at")

\* the profiles of the returned list that follow the primary profile
ReturnedSubUsers == SubSeq(ret, Len(SentPrimary) + 1, Len(ret))

\* C30: after a call of async_list_all_profiles whose sub-user response was
\* received, no error is raised and the returned sub-users are the response
\* itself when it is a sequence, the first non-empty of sub_users, data and
\* users when it is a mapping, and none when the mapping has none of them
\* non-empty or the response has any other shape
C30_SubUserDecoding ==
    (ListCalled /\ SeenSub.ok) =>
        LET body == SeenSub.data
            v == body.value
            From(q) ==
                /\ Len(ReturnedSubUsers) = Len(q)
                /\ \A i \in 1..Len(q) : Strip(ReturnedSubUsers[i]) = Strip(q[i])
            first == IF GetSeq(v, "sub_users") # <<>> THEN "sub_users"
                     ELSE IF GetSeq(v, "data") # <<>> THEN "data"
                     ELSE IF GetSeq(v, "users") # <<>> THEN "users"
                     ELSE ""
        IN  /\ last.raised = NoError
            /\ body.type = "list" => From(v)
            /\ (body.type = "dict" /\ first # "") => From(v[first])
            /\ (body.type = "dict" /\ first = "") => ReturnedSubUsers = <<>>
            /\ body.type \notin {"list", "dict"} => ReturnedSubUsers = <<>>

\* C30 witness: a mapping with an empty sub_users, a non-empty data and a
\* non-empty users gave the sub-users under data
C30_Witness ==
    /\ ListReturned
    /\ SeenSub.ok /\ SeenSub.data.type = "dict"
    /\ Has(SeenSub.data.value, "sub_users")
    /\ SeenSub.data.value.sub_users = <<>>
    /\ GetSeq(SeenSub.data.value, "data") # <<>>
    /\ GetSeq(SeenSub.data.value, "users") # <<>>
    /\ Len(ReturnedSubUsers) = 1
    /\ StrUserId(ReturnedSubUsers[1]) = StrUserId(SeenSub.data.value.data[1])
    /\ StrUserId(ReturnedSubUsers[1]) # StrUserId(SeenSub.data.value.users[1])

\* a GET was issued by the last call; SeenHttp is the answer it received
GetIssued ==
    /\ last.op \in {"async_get_user_settings", "async_list_goals"}
    /\ frame.seen # <<>>
SeenHttp == frame.seen[1]

\* the answer is a mapping that contains data
HasEnvelope(h) == Has(h.body, "dict") /\ Has(h.body.dict, "data")

\* C29 as stated: a GET fails with the request error exactly when the
\* transport raises, the status is not 2xx or the body cannot be decoded;
\* otherwise it returns the content of data when the body is a mapping
\* containing data (an empty mapping when data is null) and the body itself
\* otherwise
C29_GetFailsOnNon2xx ==
    GetIssued =>
        LET h == SeenHttp
        IN  /\ last.raised = RequestFailed <=>
                  (h.raises \/ h.status \notin 200..299 \/ ~h.decodable)
            /\ last.raised # RequestFailed =>
                  /\ last.raised = NoError
                  /\ ret = IF HasEnvelope(h)
                           THEN IF h.body.dict.data = JNull THEN JDict(EmptyDict)
                                ELSE h.body.dict.data
                           ELSE h.body

\* C29 amended: a GET fails with the request error exactly when the
\* transport raises, the status is not 200 or the body cannot be decoded;
\* otherwise it returns the content of data when the body is a mapping
\* containing data, an empty mapping in its place when data is null, false,
\* zero or empty, and the body itself when it is no mapping containing data
C29_GetFailsOnNot200 ==
    GetIssued =>
        LET h == SeenHttp
            falsy == {JNull, JBool(FALSE), JNum(0), JStr(""), JList(<<>>),
                      JDict(EmptyDict)}
        IN  /\ last.raised = RequestFailed <=>
                  (h.raises \/ h.status # 200 \/ ~h.decodable)
            /\ last.raised # RequestFailed =>
                  /\ last.raised = NoError
                  /\ ret = IF HasEnvelope(h)
                           THEN IF h.body.dict.data \in falsy
                                THEN JDict(EmptyDict)
                                ELSE h.body.dict.data
                           ELSE h.body

\* C29 witness: a GET answered with status 200 and an envelope whose data is
\* an empty list returned an empty mapping
C29_Witness ==
    /\ GetIssued
    /\ ~SeenHttp.raises /\ SeenHttp.status = 200 /\ SeenHttp.decodable
    /\ HasEnvelope(SeenHttp)
    /\ SeenHttp.body.dict.data = JList(<<>>)
    /\ last.raised = NoError
    /\ ret = JDict(EmptyDict)

\* the profile of the iteration whose gather is running
GatherProfile == frame.profiles_to_fetch[frame.done + 1]

\* C26: a task of the gather is outstanding only while the iteration waits
\* in the gather; while it waits the cursor map is as it was when the
\* iteration began, no record of the profile has been appended and the last
\* requests issued are the three of the fan-out, so no retry has been issued;
\* once the iteration has gone on to the retry or to its end all three tasks
\* have completed, and the record and the cursor are those of the three
\* results by task, whatever the order of completion
C26_JoinBarrier ==
    /\ frame.pending # {} => pc = "gather"
    /\ pc = "gather" =>
          /\ meta = frame.meta0
          /\ Len(frame.all_profiles_data) = frame.done
          /\ frame.fallback = <<>>
          /\ SubSeq(log, Len(log) - 2, Len(log)) =
                FanOutRequests(StrUserId(GatherProfile), frame.cursor)
    /\ IterSeen =>
          /\ frame.pending = {}
          /\ Len(frame.order) = 3
          /\ Range(frame.order) = {1, 2, 3}
    /\ IterDone =>
          /\ IterRecord.user_settings =
                (IF frame.results[1].ok THEN frame.results[1].data ELSE EmptyDict)
          /\ IterRecord.goals =
                (IF frame.results[2].ok THEN frame.results[2].data ELSE EmptyDict)
          /\ IterRecord.measurements.measurements =
                GetSeq(FinalBody, "measurements")
          /\ \A k \in CursorFields :
                Stored(meta, IterUid, k) =
                   IF GetInt(FinalBody, k) # 0 THEN GetInt(FinalBody, k)
                   ELSE Stored(frame.meta0, IterUid, k)

\* C26 witness: the measurements task completed first and the settings task
\* last, as a failure; the record holds the goals, the measurements and
\* empty settings
C26_Witness ==
    /\ IterDone
    /\ frame.order = <<3, 2, 1>>
    /\ ~frame.results[1].ok /\ frame.results[2].ok /\ frame.results[3].ok
    /\ IterRecord.user_settings = EmptyDict
    /\ IterRecord.goals = frame.results[2].data
    /\ Has(IterRecord.measurements, "last_measurement")

\* the coordinator's cycle returns in this step, its previous step was the
\* return of its previous cycle, and both were answered by the same dataset
SecondCycleReturns ==
    /\ pc = "loop" /\ pc' = "idle"
    /\ frame.caller = "coordinator"
    /\ frame.prev_start # <<>>
    /\ data # <<>>
    /\ frame.prev_server = frame.server

IterResponses ==
    (IF frame.results[3].ok THEN {frame.results[3].data} ELSE {})
    \cup (IF RetryOk THEN {frame.fallback[1].data} ELSE {})

\* C32: a step that leaves a non-zero value in a cursor field of profile p
\* which was not there before is the end of an iteration for p, and the value
\* is the one a measurements response of that iteration carries in that
\* field; a profile whose iteration ends without a response that reports the
\* field keeps what was stored, whatever cursor its request carried
C32_CursorFromServer ==
    [][\A p \in DOMAIN meta', k \in CursorFields :
          LET new == Stored(meta', p, k)
          IN  /\ new \notin {0, Stored(meta, p, k)} =>
                    /\ pc' = "loop" /\ p = IterUid'
                    /\ \E body \in IterResponses' : GetInt(body, k) = new
              /\ (/\ frame'.done = frame.done + 1
                  /\ p = IterUid'
                  /\ \A body \in IterResponses' : GetInt(body, k) = 0)
                 => new = Stored(meta, p, k)]_vars

\* C32 witness: the request of an iteration carried the profile's time stamp
\* for want of a stored cursor, the response reported another last_updated_at
\* and that one is stored
C32_Witness ==
    /\ IterDone
    /\ IterStored = 0
    /\ IterTs # 0
    /\ MeasRequests(IterUid)[1].last_updated_at = ToStr(IterTs)
    /\ Stored(meta, IterUid, "last_updated_at") \notin {0, IterTs}
    /\ \E body \in IterResponses :
          GetInt(body, "last_updated_at") = Stored(meta, IterUid, "last_updated_at")

\* C33: when the initial measurements call of an iteration failed, the retry
\* is issued exactly when the profile carries a non-zero time stamp that
\* differs from the stored last_updated_at, as after an empty result; and
\* when no retry was issued or the retry failed too, the iteration ends with
\* the stored cursor values of the profile as they were, an empty
\* measurements sequence and no last_measurement
C33_FailedInitialAsEmpty ==
    (IterSeen /\ ~frame.results[3].ok) =>
        /\ RetryIssued <=> (IterTs # 0 /\ IterTs # IterStored)
        /\ RetryIssued =>
              /\ Len(MeasRequests(IterUid)) = 2
              /\ MeasRequests(IterUid)[2] = MeasReq(IterUid, 0, 0)
        /\ (IterDone /\ ~RetryOk) =>
              /\ \A k \in CursorFields :
                    Stored(meta, IterUid, k) = Stored(frame.meta0, IterUid, k)
              /\ IterRecord.measurements.measurements = <<>>
              /\ ~Has(IterRecord.measurements, "last_measurement")

\* C33 witness: the initial call and the retry both failed for a profile
\* with a stored cursor, which is kept, and the snapshot is empty
C33_Witness ==
    /\ IterDone
    /\ ~frame.results[3].ok
    /\ frame.fallback = <<Fail>>
    /\ IterStored # 0
    /\ Stored(meta, IterUid, "last_updated_at") = IterStored
    /\ IterRecord.measurements.measurements = <<>>
    /\ ~Has(IterRecord.measurements, "last_measurement")

\* the requests the step issues
Issued == SubSeq(log', Len(log) + 1, Len(log'))

\* C34: a step that issues a request for a profile issues it for the target
\* next in order, at a moment when no task of the gather is outstanding, no
\* retry is awaited and every target before it has its record appended (and
\* with it its cursor updated); so the requests of two profiles never overlap
C34_OneProfileAtATime ==
    [][Len(log') > Len(log) =>
          \A i \in 1..Len(Issued) :
              Has(Issued[i], "user_id") =>
                  /\ pc \in {"loop", "gather"}
                  /\ frame.pending = {}
                  /\ frame.done < Len(frame.profiles_to_fetch)
                  /\ Issued[i].user_id =
                        StrUserId(frame.profiles_to_fetch[frame.done + 1])
                  /\ Len(frame.all_profiles_data) = frame.done
                  /\ \A j \in 1..frame.done :
                        frame.all_profiles_data[j].user_info =
                           frame.profiles_to_fetch[j]]_vars

\* C34 witness: a returned cycle over three profiles in which the retry for
\* profile 3 is followed by the first requests for profile 2
C34_Witness ==
    /\ Returned
    /\ Len(frame.profiles_to_fetch) = 3
    /\ \E i \in 1..(Len(log) - 2) :
          /\ log[i] = MeasReq("3", 0, 0)
          /\ log[i + 1] = Req(PATH_USER_SETTINGS, EmptyDict)
          /\ log[i + 2] = Req(PATH_GOALS, [user_id |-> "2"])

\* the requests of the running or last operation with path in paths
RequestsTo(paths) == SelectSeq(log, LAMBDA r : r.path \in paths)

\* the requests a cycle may have issued: at most 3 to the directory, for each
\* target at most one for the settings, one for the goals and two for the
\* measurements, and at most one for the device binds
RequestBudget ==
    (pc # "idle" \/ Returned) =>
        /\ Len(RequestsTo({PATH_GET_PRIMARY_USER, PATH_SUB_USERS})) <= 3
        /\ Len(RequestsTo({PATH_USER_SETTINGS})) <= Len(frame.profiles_to_fetch)
        /\ Len(RequestsTo({PATH_GOALS})) <= Len(frame.profiles_to_fetch)
        /\ Len(RequestsTo({PATH_MEASUREMENTS})) <= 2 * Len(frame.profiles_to_fetch)
        /\ \A j \in 1..Len(frame.profiles_to_fetch) :
              Len(MeasRequests(StrUserId(frame.profiles_to_fetch[j]))) <= 2
        /\ Len(RequestsTo({PATH_DEVICE_BINDS})) <= 1
        /\ Len(log) <= 3 + 4 * Len(frame.profiles_to_fetch) + 1

\* a call of async_fetch_all has ended by raising the not-authenticated error
RaisedNotAuthenticated ==
    pc = "idle" /\ last = Outcome("async_fetch_all", NotAuthenticated, FALSE)

\* C37: when every awaited call ends, a cycle that has begun returns its
\* payload; a cycle ends in no other way than by the payload or the
\* not-authenticated error; and it issues at most 3 directory requests, 4
\* requests per target and 1 device binds request
C37_CycleTerminates ==
    /\ [](RequestBudget)
    /\ [](last.op = "async_fetch_all" /\ pc = "idle"
             => Returned \/ RaisedNotAuthenticated)
    /\ (pc # "idle") ~> Returned

\* C37 witness: a returned cycle over three targets with a retry for the one
\* that carries a time stamp: 3 + 3 + 3 + 4 + 1 requests
C37_Witness ==
    /\ Returned
    /\ Len(frame.profiles_to_fetch) = 3
    /\ Len(MeasRequests("3")) = 2
    /\ Len(log) = 14

\* an options update has run; LastUpdate is what it saw and removed
Updated == hass.update # <<>>
LastUpdate == hass.update

\* the device identifier of the profile with id uid
DeviceOf(uid) == "user_" \o uid

\* C31 as stated: after an options update, the device of every profile that
\* was selected before the update and is not selected after it is no longer
\* in the device registry
C31_DeselectedDeviceRemoved ==
    Updated =>
        \A uid \in Range(LastUpdate.before) \ Range(LastUpdate.after) :
            DeviceOf(uid) \notin hass.devices

\* C36 as stated: an options update removes no device and no entity of a
\* profile that is selected after the update
C36_OnlyDeselectedRemoved ==
    Updated =>
        \A uid \in Range(LastUpdate.after) :
            /\ DeviceOf(uid) \notin LastUpdate.removed_devices
            /\ \A e \in LastUpdate.removed_entities : e.device # DeviceOf(uid)

\* the record of profile uid in the payload the coordinator holds
OwnRecords(uid) ==
    {i \in 1..Len(data.profiles) :
        StrUserId(data.profiles[i].user_info) = uid}

\* what a sensor reports when it reads the record of its own profile only
OwnValue(sensor) ==
    IF OwnRecords(sensor.profile_user_id) = {} THEN <<>>
    ELSE LET r == data.profiles[CHOOSE i \in OwnRecords(sensor.profile_user_id) : TRUE]
         IN  IF sensor.kind = "user" THEN IntValue(r.user_info[sensor.key])
             ELSE IF sensor.kind = "birthday"
             THEN FormatBirthday(r.user_info.birthday,
                                 GetStr(r.user_settings, "date_format"))
             ELSE IF sensor.kind = "goal"
             THEN (IF Has(r.goals, "goals")
                   THEN IntValue(r.goals.goals[1].goal_value) ELSE <<>>)
             ELSE (IF Has(r.measurements, "last_measurement")
                   THEN IntValue(r.measurements.last_measurement[sensor.key])
                   ELSE <<>>)

\* C35 as stated: every sensor of a profile reports the value of the record
\* of its own profile in the payload, and no value when that record is
\* missing or holds no last_measurement or goals
C35_NoCrossProfileLeakage ==
    \A sensor \in hass.sensors : hass.states[sensor] = OwnValue(sensor)
=============================================================================
